---- MODULE Spec2Model ----
(***************************************************************************)
(* Model of the wire-protocol command engine of mononoke's repo_client     *)
(* (src/repo_client/src/client/mod.rs).                                    *)
(*                                                                         *)
(* Part 1: RepoClient::between, the sparse first-parent ancestor walk.     *)
(* Part 2: RepoClient::getfiles, the order-preserving buffered pipeline.   *)
(* Part 3: RepoClient::gettreepack, the pruned manifest diff walks and the *)
(*         assembly of the tree records; the walk under any pruner.        *)
(* Part 4: RepoClient::lookup, hash first and bookmark second.             *)
(* Part 5: a RepoClient session: the commands of one connection, their     *)
(*         telemetry records, hello, known, listkeys and getbundle.        *)
(* Part 6: the consumer drops the output of a between or a getfiles.       *)
(* Part 7: Generation::difference_from                                     *)
(*         (src/mononoke-types/src/generation.rs).                         *)
(* Part 8: RepoClient::stream_out_shallow.                                 *)
(* Part 9: CachingFilenodes (src/filenodes/src/caching.rs).                *)
(* Part 10: UploadChangesets::upload and upload_bookmarks of blobimport    *)
(*         (src/cmdlib/src/blobimport_lib).                                *)
(* Part 11: LuaHook (src/hooks/src/lua_hook.rs).                           *)
(*                                                                         *)
(* Each part has its own initial predicate, next-state relation and        *)
(* specification; the variables of the other part stay at their initial    *)
(* values.                                                                 *)
(***************************************************************************)
EXTENDS Integers, Sequences, FiniteSets, Bags, TLC

VARIABLES
    \* ---- between ----
    pairs,      \* the request: a sequence of <<top, bottom>>
    bPc,        \* "running" | "done" | "failed": state of the outer future
    cur,        \* position of stream::and_then in `pairs` (1-based)
    n,          \* n[j]: ParentStream.n of pair j, the cursor
    wait_cs,    \* wait_cs[j]: ParentStream.wait_cs of pair j
    idx,        \* idx[j]: the counter of .enumerate()
    f,          \* f[j]: the doubling threshold captured by .filter()
    acc,        \* acc[j]: what the inner .collect() has gathered
    fetched,    \* fetched[j]: the changesets pair j asked the repository for
    out,        \* what the outer .collect() has gathered
    resp,       \* the value the command resolves to
    storeErr,   \* whether the blobstore has failed a fetch of a stored changeset
    \* ---- getfiles ----
    gfPc,        \* "streaming" | "done": whether the output returned Ready(None)
    gfPulled,    \* number of (hash, path) pairs taken from params
    gfInputDone, \* params has returned Ready(None) (Fuse::is_done)
    gfStatus,    \* gfStatus[k]: the fetch of input k
                 \*   "running"  in FuturesOrdered.in_progress, not complete
                 \*   "ok"       complete with a blob, not yet emitted
                 \*   "err"      complete with an error, not yet polled
                 \*   "emitted"  its blob was emitted
                 \*   "failed"   its error was emitted
    gfNext,      \* FuturesOrdered.next_outgoing_index (1-based)
    gfOut,       \* the items the output stream has yielded
    \* ---- gettreepack ----
    gtpArgs,     \* the request (GettreepackArgs)
    gtpPc,       \* "call" | "streaming" | "done" | "failed" | "panicked"
    gtpErr,      \* the error or panic message the stream ended with
    used_hashes, \* the HashSet captured by .filter()
    gtpQueue,    \* entries past the filter whose record is being fetched
    gtpOut,      \* the bag of tree records handed to the treepack part
    gtpReads,    \* what was read from the repository: <<kind, hash>>
    gtpLookupFailed, \* whether a repository read of this request has failed
    \* ---- the manifest diff walk (one per target manifest) ----
    wPc,         \* wPc[i]: "start" | "walk" | "done"
    wTodo,       \* wTodo[i]: changed entries the pruner kept, not yet yielded
    wYielded,    \* wYielded[i]: the entries the stream of target i has yielded
    visited,     \* the set shared by the clones of the VisitedPruner
    prArgs,      \* a walk run on its own: pruner, manifests and depth
    \* ---- lookup ----
    lkKey,       \* the key, as its two parses
    lkExists,    \* the changesets of the repository
    lkBookmarks, \* the bookmarks of the repository
    lkPc,        \* "call" | "exists" | "bookmark" | "done" | "failed"
    lkResp,      \* the response record, or <<>>
    lkReads,     \* the repository reads issued, in order
    \* ---- the session (one RepoClient) ----
    session,     \* the RepoClient: its repository handle and its context
    cmd,         \* the command invoked last: handler state and result
    records,     \* the telemetry records logged so far, in order
    ninv,        \* the number of commands invoked so far
    \* ---- cancellation ----
    dropped,     \* the consumer has dropped the future or stream of the command
    \* ---- Generation ----
    self_gen,    \* the generation number of self
    other_gen,   \* the generation number of other
    difference,  \* whether difference_from was called, and what it returned
    \* ---- stream_out_shallow ----
    soConfigured, \* whether the repository has a streaming-clone configuration
    soStored,    \* the changelog chunks the fetcher holds
    soPc,        \* "call" | "response" | "index_header" | "index" |
                 \* "data_header" | "data" | "done" | "failed"
    soPulled,    \* number of chunk fetches Buffered has taken from the Vec
    soStatus,    \* soStatus[k]: the fetch of chunk k, as gfStatus
    soNext,      \* FuturesOrdered.next_outgoing_index (1-based)
    soOut,       \* the items the response stream has yielded
    \* ---- CachingFilenodes ----
    fnStore,     \* the wrapped store: key -> info, 0 when absent
    fnCache,     \* the Asyncmemo cache: key -> <<>> or <<value>>
    fnResults,   \* the get_filenode calls so far: key and result, in order
    \* ---- UploadChangesets::upload ----
    upArgs,      \* changeset, skip and commits_limit
    upRevlog,    \* upRevlog[c]: the parents of changeset c of the revlog
    upPulled,    \* number of changesets Buffered has taken from the stream
    upStatus,    \* upStatus[k]: the parse of the k-th changeset, as gfStatus
    upNext,      \* FuturesOrdered.next_outgoing_index (1-based)
    upCreated,   \* the changesets created, in order
    parent_changeset_handles, \* the keys of the HashMap of handles
    upPc,        \* "running" | "done" | "failed" | "panicked"
    \* ---- upload_bookmarks ----
    bkArgs,      \* the bookmarks of the revlog, the stale bookmarks, the repository
    bkPending,   \* the bookmarks whose future has not resolved
    bkChunk,     \* the items Chunks has gathered
    bkReady,     \* Chunks has yielded bkChunk, its transaction has not committed
    bkErr,       \* Chunks holds an error of the stream for its next poll
    bkSet,       \* the bookmarks set in the blob repository: <<key, target>>
    bkTx,        \* the sizes of the transactions committed
    bkPc,        \* "read" | "running" | "done" | "failed"
    \* ---- LuaHook ----
    hkIn,        \* the hook: its kind, its code and what the code returns
    hkPc,        \* "new" | "loaded" | "started" | "done"
    hkRan,       \* whether the hook function has run
    hkRes        \* what run resolves to

betweenVars ==
    <<pairs, bPc, cur, n, wait_cs, idx, f, acc, fetched, out, resp, storeErr>>

getfilesVars == <<gfPc, gfPulled, gfInputDone, gfStatus, gfNext, gfOut>>

gtpVars ==
    <<gtpArgs, gtpPc, gtpErr, used_hashes, gtpQueue, gtpOut, gtpReads,
      gtpLookupFailed>>

walkVars == <<wPc, wTodo, wYielded, visited>>

lookupVars == <<lkKey, lkExists, lkBookmarks, lkPc, lkResp, lkReads>>

sessionVars == <<session, cmd, records, ninv>>

generationVars == <<self_gen, other_gen, difference>>

streamOutVars ==
    <<soConfigured, soStored, soPc, soPulled, soStatus, soNext, soOut>>

filenodesVars == <<fnStore, fnCache, fnResults>>

uploadVars ==
    <<upArgs, upRevlog, upPulled, upStatus, upNext, upCreated,
      parent_changeset_handles, upPc>>

bookmarkVars ==
    <<bkArgs, bkPending, bkChunk, bkReady, bkErr, bkSet, bkTx, bkPc>>

hookVars == <<hkIn, hkPc, hkRan, hkRes>>

lateVars ==
    <<streamOutVars, filenodesVars, uploadVars, bookmarkVars, hookVars>>

\* What every command leaves alone.
otherVars == <<sessionVars, dropped, generationVars, lateVars>>

vars ==
    <<betweenVars, getfilesVars, gtpVars, walkVars, prArgs, lookupVars,
      otherVars>>

\* What a between, a getfiles, a gettreepack, a walk and a lookup leave alone.
exceptBetween ==
    <<getfilesVars, gtpVars, walkVars, prArgs, lookupVars, otherVars>>

exceptGetfiles ==
    <<betweenVars, gtpVars, walkVars, prArgs, lookupVars, otherVars>>

exceptGettreepack ==
    <<betweenVars, getfilesVars, prArgs, lookupVars, otherVars>>

exceptWalk == <<betweenVars, getfilesVars, gtpVars, lookupVars, otherVars>>

exceptLookup ==
    <<betweenVars, getfilesVars, gtpVars, walkVars, prArgs, otherVars>>

exceptSession ==
    <<betweenVars, getfilesVars, gtpVars, walkVars, prArgs, lookupVars,
      dropped, generationVars, lateVars>>

exceptGeneration ==
    <<betweenVars, getfilesVars, gtpVars, walkVars, prArgs, lookupVars,
      sessionVars, dropped, lateVars>>

\* The variables of the wire-protocol commands and of Generation.
earlyVars ==
    <<betweenVars, getfilesVars, gtpVars, walkVars, prArgs, lookupVars,
      sessionVars, dropped, generationVars>>

exceptStreamOut ==
    <<earlyVars, filenodesVars, uploadVars, bookmarkVars, hookVars>>

exceptFilenodes ==
    <<earlyVars, streamOutVars, uploadVars, bookmarkVars, hookVars>>

exceptUpload ==
    <<earlyVars, streamOutVars, filenodesVars, bookmarkVars, hookVars>>

exceptBookmarks ==
    <<earlyVars, streamOutVars, filenodesVars, uploadVars, hookVars>>

exceptHook ==
    <<earlyVars, streamOutVars, filenodesVars, uploadVars, bookmarkVars>>

\* No gettreepack command runs.
GettreepackIdle ==
    /\ gtpArgs = <<>>
    /\ gtpPc = "done"
    /\ gtpErr = "none"
    /\ used_hashes = {}
    /\ gtpQueue = <<>>
    /\ gtpOut = EmptyBag
    /\ gtpReads = {}
    /\ gtpLookupFailed = FALSE

\* No manifest diff walk runs.
WalkIdle ==
    /\ wPc = <<>>
    /\ wTodo = <<>>
    /\ wYielded = <<>>
    /\ visited = {}

\* No walk is run on its own.
PrunerIdle == prArgs = <<>>

\* No lookup command runs.
LookupIdle ==
    /\ lkKey = <<>>
    /\ lkExists = {}
    /\ lkBookmarks = <<>>
    /\ lkPc = "done"
    /\ lkResp = <<>>
    /\ lkReads = <<>>

\* No session is open.
SessionIdle ==
    /\ session = <<>>
    /\ cmd = <<>>
    /\ records = <<>>
    /\ ninv = 0

\* difference_from is not called.
GenerationIdle ==
    /\ self_gen = 0
    /\ other_gen = 0
    /\ difference = <<"uncalled">>

\* No stream_out_shallow command runs.
StreamOutIdle ==
    /\ soConfigured = FALSE
    /\ soStored = <<>>
    /\ soPc = "done"
    /\ soPulled = 0
    /\ soStatus = <<>>
    /\ soNext = 1
    /\ soOut = <<>>

\* No CachingFilenodes is in use.
FilenodesIdle ==
    /\ fnStore = <<>>
    /\ fnCache = <<>>
    /\ fnResults = <<>>

\* No upload of changesets runs.
UploadIdle ==
    /\ upArgs = <<>>
    /\ upRevlog = <<>>
    /\ upPulled = 0
    /\ upStatus = <<>>
    /\ upNext = 1
    /\ upCreated = <<>>
    /\ parent_changeset_handles = {}
    /\ upPc = "done"

\* No upload of bookmarks runs.
BookmarksIdle ==
    /\ bkArgs = <<>>
    /\ bkPending = {}
    /\ bkChunk = {}
    /\ bkReady = FALSE
    /\ bkErr = FALSE
    /\ bkSet = {}
    /\ bkTx = {}
    /\ bkPc = "done"

\* No hook runs.
HookIdle ==
    /\ hkIn = <<>>
    /\ hkPc = "done"
    /\ hkRan = FALSE
    /\ hkRes = <<>>

\* Neither stream_out_shallow nor any of the parts outside repo_client runs.
LateIdle ==
    /\ StreamOutIdle
    /\ FilenodesIdle
    /\ UploadIdle
    /\ BookmarksIdle
    /\ HookIdle

(***************************************************************************)
(* The repository.  Hashes are numbers; 0 is the null hash.                *)
(*                                                                         *)
(*   1 <- 2 <- 3 <- ... <- ChainLen            the main first-parent chain *)
(*             3 <- Side1 <- Merge             a side branch; Merge has    *)
(*                                             second parent 5             *)
(*   Missing                                   not stored                  *)
(*   Missing <- Dangling                       stored, its parent is not   *)
(***************************************************************************)
ChainLen == 10

NULL_HASH == 0

Side1 == ChainLen + 1

Merge == ChainLen + 2

Missing == ChainLen + 3

Dangling == ChainLen + 4

Stored == (1..ChainLen) \cup {Side1, Merge, Dangling}

\* The parents of a stored changeset, first parent first.
Parents(h) ==
    IF h = 1 THEN <<>>
    ELSE IF h \in 2..ChainLen THEN <<h - 1>>
    ELSE IF h = Side1 THEN <<3>>
    ELSE IF h = Merge THEN <<Side1, 5>>
    ELSE <<Missing>>

\* cs.p1().cloned().unwrap_or(NULL_HASH)
LastParentOrNull(h) ==
    IF Len(Parents(h)) >= 1 THEN Parents(h)[Len(Parents(h))] ELSE NULL_HASH

P1OrNull(h) == IF Len(Parents(h)) >= 1 THEN Parents(h)[1] ELSE NULL_HASH

\* blobrepo().get_changeset_by_changesetid(n): the state the future ends in.
\* It fails when the changeset is not stored or the blobstore fails.
FetchOutcome(h, storeFails) ==
    IF h \in Stored /\ ~storeFails THEN "ReadyOk" ELSE "ReadyErr"

\* The requests explored.
MaxPairs == 2

Tops == {NULL_HASH, 1, 3, ChainLen, Merge, Missing, Dangling}

Bottoms == {NULL_HASH, 1, 3, ChainLen, Missing}

PairSeqs == UNION {[1..k -> Tops \X Bottoms] : k \in 0..MaxPairs}

PairIx == 1..Len(pairs)

Top(j) == pairs[j][1]

Bottom(j) == pairs[j][2]

\* No getfiles command runs.
GetfilesIdle ==
    /\ gfPc = "done"
    /\ gfPulled = 0
    /\ gfInputDone = TRUE
    /\ gfStatus = <<>>
    /\ gfNext = 1
    /\ gfOut = <<>>

(***************************************************************************)
(* between                                                                 *)
(***************************************************************************)
\* ParentStream::new for every pair, f = 1, and the two empty collectors.
InitBetween ==
    /\ SessionIdle
    /\ dropped = FALSE
    /\ LateIdle
    /\ GenerationIdle
    /\ pairs \in PairSeqs
    /\ cur = 1
    /\ n = [j \in PairIx |-> Top(j)]
    /\ wait_cs = [j \in PairIx |-> "None"]
    /\ idx = [j \in PairIx |-> 0]
    /\ f = [j \in PairIx |-> 1]
    /\ acc = [j \in PairIx |-> <<>>]
    /\ fetched = [j \in PairIx |-> <<>>]
    /\ out = <<>>
    /\ bPc = IF Len(pairs) = 0 THEN "done" ELSE "running"
    /\ resp = IF Len(pairs) = 0
              THEN [st |-> "ok", lists |-> <<>>]
              ELSE [st |-> "pending", lists |-> <<>>]
    /\ storeErr = FALSE
    /\ GetfilesIdle
    /\ GettreepackIdle
    /\ WalkIdle
    /\ PrunerIdle
    /\ LookupIdle

\* stream::and_then drives one inner future at a time: the one of the pair it
\* has taken from the iterator and not yet resolved.
PolledAllAtOnce(j) == j >= cur

Polled(j) == j = cur

\* if self.n == self.bottom || self.n == NULL_HASH
AtEndNullOnly(j) == n[j] = NULL_HASH

AtEnd(j) == n[j] = Bottom(j) \/ n[j] = NULL_HASH

\* The filter closure: keep index i when i == f, then double f.
KeepsOneEarly(i, fj) == i + 1 = fj

Keeps(i, fj) == i = fj

\* poll() returns Ready(None): the inner collect resolves with acc[j], and_then
\* yields it to the outer collect and takes the next pair; after the last pair
\* the outer collect resolves.
PollEnd(j) ==
    /\ bPc = "running"
    /\ Polled(j)
    /\ AtEnd(j)
    /\ wait_cs[j] = "None"
    /\ out' = Append(out, acc[j])
    /\ cur' = cur + 1
    /\ IF cur + 1 > Len(pairs)
       THEN /\ bPc' = "done"
            /\ resp' = [st |-> "ok", lists |-> out']
       ELSE UNCHANGED <<bPc, resp>>
    /\ UNCHANGED <<pairs, n, wait_cs, idx, f, acc, fetched, storeErr>>

\* A poll that issues a fetch whether or not one is outstanding.
PollFetchEveryPoll(j) ==
    /\ bPc = "running"
    /\ Polled(j)
    /\ ~AtEnd(j)
    /\ wait_cs[j] \in {"None", "Pending"}
    /\ wait_cs' = [wait_cs EXCEPT ![j] = "Pending"]
    /\ fetched' = [fetched EXCEPT ![j] = Append(@, n[j])]
    /\ UNCHANGED <<pairs, bPc, cur, n, idx, f, acc, out, resp, storeErr>>

\* poll() with wait_cs empty: or_else issues the fetch of changeset n.
PollFetch(j) ==
    /\ bPc = "running"
    /\ Polled(j)
    /\ ~AtEnd(j)
    /\ wait_cs[j] = "None"
    /\ wait_cs' = [wait_cs EXCEPT ![j] = "Pending"]
    /\ fetched' = [fetched EXCEPT ![j] = Append(@, n[j])]
    /\ UNCHANGED <<pairs, bPc, cur, n, idx, f, acc, out, resp, storeErr>>

\* The repository completes the outstanding fetch.
FetchComplete(j) ==
    /\ bPc = "running"
    /\ wait_cs[j] = "Pending"
    /\ \E storeFails \in BOOLEAN :
          /\ wait_cs' = [wait_cs EXCEPT ![j] = FetchOutcome(n[j], storeFails)]
          /\ storeErr' = (storeErr \/ (storeFails /\ n[j] \in Stored))
    /\ UNCHANGED <<pairs, bPc, cur, n, idx, f, acc, fetched, out, resp>>

\* poll() finds the fetch ready: the cursor moves to the first parent and the
\* previous cursor is emitted with the next enumerate index; the filter keeps
\* it or drops it.
PollReady(j) ==
    /\ bPc = "running"
    /\ Polled(j)
    /\ wait_cs[j] = "ReadyOk"
    /\ wait_cs' = [wait_cs EXCEPT ![j] = "None"]
    /\ n' = [n EXCEPT ![j] = P1OrNull(n[j])]
    /\ idx' = [idx EXCEPT ![j] = @ + 1]
    /\ IF Keeps(idx[j], f[j])
       THEN /\ f' = [f EXCEPT ![j] = @ * 2]
            /\ acc' = [acc EXCEPT ![j] = Append(@, n[j])]
       ELSE UNCHANGED <<f, acc>>
    /\ UNCHANGED <<pairs, bPc, cur, fetched, out, resp, storeErr>>

\* What the command resolves to when a fetch fails: try_ready! returns the
\* error, both collects drop what they hold.
ErrKeepsWalked == [st |-> "ok", lists |-> out]

ErrResponse == [st |-> "err", lists |-> <<>>]

PollErr(j) ==
    /\ bPc = "running"
    /\ Polled(j)
    /\ wait_cs[j] = "ReadyErr"
    /\ bPc' = "failed"
    /\ resp' = ErrResponse
    /\ UNCHANGED <<pairs, cur, n, wait_cs, idx, f, acc, fetched, out, storeErr>>

NextBetween ==
    \/ \E j \in PairIx : PollEnd(j) /\ UNCHANGED exceptBetween
    \/ \E j \in PairIx : PollFetch(j) /\ UNCHANGED exceptBetween
    \/ \E j \in PairIx : FetchComplete(j) /\ UNCHANGED exceptBetween
    \/ \E j \in PairIx : PollReady(j) /\ UNCHANGED exceptBetween
    \/ \E j \in PairIx : PollErr(j) /\ UNCHANGED exceptBetween

SpecBetween == InitBetween /\ [][NextBetween]_vars

(***************************************************************************)
(* getfiles: params.map(create_remotefilelog_blob).buffered(100).          *)
(*                                                                         *)
(* Inputs are numbered 1, 2, ... in the order params yields them.  The     *)
(* actions are the steps of Buffered::poll of futures 0.1: the fill loop   *)
(* pulls from params while the FuturesOrdered queue holds fewer than max   *)
(* futures; then the queue is polled: FuturesOrdered hands out the blob    *)
(* with index next_outgoing_index when it is complete, and returns the     *)
(* error of a failed future as soon as it polls that future.               *)
(***************************************************************************)
getfiles_buffer_size == 100

\* The longest input stream explored, and how far behind the head of the
\* queue a fetch may complete.
MaxFiles == 102

MaxAhead == 2

\* No between command runs.
BetweenIdle ==
    /\ pairs = <<>>
    /\ bPc = "done"
    /\ cur = 1
    /\ n = <<>>
    /\ wait_cs = <<>>
    /\ idx = <<>>
    /\ f = <<>>
    /\ acc = <<>>
    /\ fetched = <<>>
    /\ out = <<>>
    /\ resp = [st |-> "ok", lists |-> <<>>]
    /\ storeErr = FALSE

InitGetfiles ==
    /\ SessionIdle
    /\ dropped = FALSE
    /\ LateIdle
    /\ GenerationIdle
    /\ BetweenIdle
    /\ GettreepackIdle
    /\ WalkIdle
    /\ PrunerIdle
    /\ LookupIdle
    /\ gfPc = "streaming"
    /\ gfPulled = 0
    /\ gfInputDone = FALSE
    /\ gfStatus = <<>>
    /\ gfNext = 1
    /\ gfOut = <<>>

\* The fetches that may complete now: the MaxAhead oldest of the queue.
Window == {k \in gfNext..(gfNext + MaxAhead - 1) : k <= gfPulled}

\* FuturesOrdered::len(): the futures in progress plus the queued results.
Held == {k \in 1..gfPulled : gfStatus[k] \in {"running", "ok", "err"}}

QueueLen == Cardinality(Held)

\* while self.queue.len() < self.max
HasRoomInclusive == QueueLen <= getfiles_buffer_size

HasRoom == QueueLen < getfiles_buffer_size

\* self.stream.poll() returns Ready(Some(future)): the fetch is created and
\* pushed on the queue.
GfPull ==
    /\ gfPc = "streaming"
    /\ ~gfInputDone
    /\ HasRoom
    /\ gfPulled < MaxFiles
    /\ gfPulled' = gfPulled + 1
    /\ gfStatus' = Append(gfStatus, "running")
    /\ UNCHANGED <<gfPc, gfInputDone, gfNext, gfOut>>

\* self.stream.poll() returns Ready(None): the client has sent its last pair.
GfInputEnd ==
    /\ gfPc = "streaming"
    /\ ~gfInputDone
    /\ HasRoom
    /\ gfInputDone' = TRUE
    /\ UNCHANGED <<gfPc, gfPulled, gfStatus, gfNext, gfOut>>

\* create_remotefilelog_blob completes, with the blob or with an error.
GfFetchDone(k, ok) ==
    /\ gfPc = "streaming"
    /\ gfStatus[k] = "running"
    /\ gfStatus' = [gfStatus EXCEPT ![k] = IF ok THEN "ok" ELSE "err"]
    /\ UNCHANGED <<gfPc, gfPulled, gfInputDone, gfNext, gfOut>>

\* FuturesOrdered::poll hands out a queued result only when its index is
\* next_outgoing_index.
EmittableAny(k) == gfStatus[k] = "ok"

Emittable(k) == k = gfNext /\ gfStatus[k] = "ok"

\* The queue yields the next blob.  Every complete future is polled before,
\* so no failed future is waiting.
GfEmit(k) ==
    /\ gfPc = "streaming"
    /\ Emittable(k)
    /\ ~\E e \in 1..gfPulled : gfStatus[e] = "err"
    /\ gfOut' = Append(gfOut, [k |-> k, blob |-> TRUE])
    /\ gfStatus' = [gfStatus EXCEPT ![k] = "emitted"]
    /\ gfNext' = gfNext + 1
    /\ UNCHANGED <<gfPc, gfPulled, gfInputDone>>

\* self.in_progress.poll()? meets a failed future: its error is the next item
\* of the output, whatever its index.
ErrEmittable(k) == gfStatus[k] = "err"

GfEmitErr(k) ==
    /\ gfPc = "streaming"
    /\ ErrEmittable(k)
    /\ gfOut' = Append(gfOut, [k |-> k, blob |-> FALSE])
    /\ gfStatus' = [gfStatus EXCEPT ![k] = "failed"]
    /\ UNCHANGED <<gfPc, gfPulled, gfInputDone, gfNext>>

\* The queue is empty and params is done: the output returns Ready(None).
GfFinish ==
    /\ gfPc = "streaming"
    /\ gfInputDone
    /\ QueueLen = 0
    /\ gfPc' = "done"
    /\ UNCHANGED <<gfPulled, gfInputDone, gfStatus, gfNext, gfOut>>

NextGetfiles ==
    \/ GfPull /\ UNCHANGED exceptGetfiles
    \/ GfInputEnd /\ UNCHANGED exceptGetfiles
    \/ \E k \in Window, ok \in BOOLEAN :
          GfFetchDone(k, ok) /\ UNCHANGED exceptGetfiles
    \/ \E k \in Window : GfEmit(k) /\ UNCHANGED exceptGetfiles
    \/ \E k \in Window : GfEmitErr(k) /\ UNCHANGED exceptGetfiles
    \/ GfFinish /\ UNCHANGED exceptGetfiles

SpecGetfiles == InitGetfiles /\ [][NextGetfiles]_vars

\* The executor polls the stream whenever a future completes, and, as C9
\* supposes, every fetch completes.
SpecGetfilesFair ==
    /\ SpecGetfiles
    /\ WF_vars(\E k \in Window, ok \in BOOLEAN :
                  GfFetchDone(k, ok) /\ UNCHANGED exceptGetfiles)
    /\ WF_vars(\E k \in Window : GfEmit(k) /\ UNCHANGED exceptGetfiles)
    /\ WF_vars(GfFinish /\ UNCHANGED exceptGetfiles)

(***************************************************************************)
(* Claims about getfiles.                                                  *)
(***************************************************************************)
IsBlob(e) == e.blob

\* The blobs of the output, in the order of their emission.
Blobs == SelectSeq(gfOut, IsBlob)

\* The fetches started whose result, blob or error, is not yet emitted.
Unemitted == {k \in 1..gfPulled : gfStatus[k] \notin {"emitted", "failed"}}

AnyFailure == \E k \in 1..gfPulled : gfStatus[k] \in {"err", "failed"}

\* C7: the blobs leave in the order of the inputs: the i-th blob emitted is
\* the blob of input i, so the blob of input k follows those of all earlier
\* inputs, however early its fetch completed.
C7_BlobsInInputOrder ==
    LET b == Blobs IN
    /\ \A i \in 1..Len(b) : b[i].k = i
    /\ \A k \in 1..gfPulled :
          (gfStatus[k] = "ok" /\ k > gfNext) => Len(b) < k

\* Input gfNext + 1 is fetched while input gfNext is pending, after a first
\* blob has left: it waits.
C7_Witness ==
    /\ Len(Blobs) >= 1
    /\ gfNext + 1 <= gfPulled
    /\ gfStatus[gfNext] = "running"
    /\ gfStatus[gfNext + 1] = "ok"

\* C8: at most 100 fetches are started and not yet emitted.
C8_AtMostCap == Cardinality(Unemitted) <= getfiles_buffer_size

\* 100 fetches are held and the client has more pairs to send.
C8_Witness ==
    /\ Cardinality(Unemitted) = getfiles_buffer_size
    /\ ~gfInputDone
    /\ gfPulled < MaxFiles

\* What is left to do once the input has ended: two steps for a running
\* fetch, one for a complete one, one to end the output.
Remaining ==
    2 * Cardinality({k \in 1..gfPulled : gfStatus[k] = "running"})
      + Cardinality({k \in 1..gfPulled : gfStatus[k] = "ok"})
      + (IF gfPc = "done" THEN 0 ELSE 1)

\* The item the output has just yielded.
LastOut == gfOut'[Len(gfOut')]

\* The parts of C9 that the claim and its amendment share: a pair is pulled
\* only while fewer than 100 fetches are held; every pulled input is held or
\* was emitted, once; an output that ends without a failed fetch holds
\* exactly one blob per input, in order; and once the input has ended,
\* unless a fetch fails, the output comes to that end: a step is always
\* possible, each step brings the end nearer, and the steps are taken.
BackpressureAndCompletion ==
    /\ [][gfPulled' > gfPulled =>
            Cardinality(Unemitted) < getfiles_buffer_size]_vars
    /\ [](/\ Len(gfOut) + Cardinality(Unemitted) = gfPulled
          /\ Cardinality({gfOut[i].k : i \in 1..Len(gfOut)}) = Len(gfOut))
    /\ [](gfPc = "done" /\ ~AnyFailure =>
            gfOut = [i \in 1..gfPulled |-> [k |-> i, blob |-> TRUE]])
    /\ []((gfInputDone /\ ~AnyFailure /\ gfPc # "done") => ENABLED NextGetfiles)
    /\ [][(gfInputDone /\ ~AnyFailure') => Remaining' < Remaining]_vars
    /\ (gfInputDone ~>
          (AnyFailure \/ (gfPc = "done" /\ Len(gfOut) = gfPulled)))

\* C9 as claimed: no input is lost, and while 100 fetches are held the
\* result that makes room for the next pull is the one of the head of the
\* queue.
C9_Claimed ==
    /\ BackpressureAndCompletion
    /\ [][(Cardinality(Unemitted) = getfiles_buffer_size /\ gfOut' # gfOut)
            => LastOut.k = gfNext]_vars

\* C9 as amended: no input is lost, and while 100 fetches are held the
\* result that makes room for the next pull is the blob of the head of the
\* queue or the error of a failed fetch, at the head or behind it.
C9_NoInputLost ==
    /\ BackpressureAndCompletion
    /\ [][(Cardinality(Unemitted) = getfiles_buffer_size /\ gfOut' # gfOut)
            => (LastOut.blob => LastOut.k = gfNext)]_vars

\* More than 100 inputs were all answered, and the output has ended.
C9_Witness ==
    /\ gfPc = "done"
    /\ gfPulled > getfiles_buffer_size
    /\ Len(Blobs) = gfPulled

\* C10 as claimed: the error of input k comes after the blobs of all the
\* inputs before k.
C10_Claimed ==
    \A p \in 1..Len(gfOut) :
        ~gfOut[p].blob =>
            \A i \in 1..(gfOut[p].k - 1) :
                \E q \in 1..(p - 1) : gfOut[q] = [k |-> i, blob |-> TRUE]

\* C10 as amended: the error of input k is emitted as soon as the failed
\* fetch is polled; the blobs emitted before it are those of the inputs
\* before some j <= k, in order, so none of input k or later.
C10_ErrorJumpsQueue ==
    \A p \in 1..Len(gfOut) :
        ~gfOut[p].blob =>
            LET before == SelectSeq(SubSeq(gfOut, 1, p - 1), IsBlob) IN
            /\ Len(before) < gfOut[p].k
            /\ \A i \in 1..Len(before) : before[i].k = i

\* An error was emitted before the blob of an earlier input.
C10_Witness ==
    \E p \in 1..Len(gfOut) :
        /\ ~gfOut[p].blob
        /\ \E q \in (p + 1)..Len(gfOut) :
              gfOut[q].blob /\ gfOut[q].k < gfOut[p].k

(***************************************************************************)
(* Reference definitions for the claims about between.  They describe the  *)
(* repository graph, not the walker.                                       *)
(***************************************************************************)
\* The stored changesets on the first-parent chain of h, h first.
RECURSIVE FirstParentChain(_)
FirstParentChain(h) ==
    IF h \notin Stored THEN <<>>
    ELSE <<h>> \o FirstParentChain(
             IF Parents(h) = <<>> THEN NULL_HASH ELSE Parents(h)[1])

\* The first hash on the first-parent walk from h that is not stored: the
\* null hash, or a missing changeset.
RECURSIVE ChainEnd(_)
ChainEnd(h) ==
    IF h \notin Stored THEN h
    ELSE ChainEnd(IF Parents(h) = <<>> THEN NULL_HASH ELSE Parents(h)[1])

\* The chain of h reaches the null hash: every changeset on it is stored.
ChainComplete(h) == ChainEnd(h) = NULL_HASH

OnChain(b, c) == \E i \in 1..Len(c) : c[i] = b

\* The 0-based position of b on chain c.
PosOn(b, c) == (CHOOSE i \in 1..Len(c) : c[i] = b) - 1

IsPowerOfTwo(i) == \E k \in 0..i : 2 ^ k = i

\* [c_i : i a power of two, 1 <= i < N], in increasing i (c is c_0, c_1, ...).
Sparse(c, N) ==
    LET ks == SelectSeq([i \in 1..(N - 1) |-> i], IsPowerOfTwo)
    IN  [m \in 1..Len(ks) |-> c[ks[m] + 1]]

SeqRange(s) == {s[i] : i \in 1..Len(s)}

\* The ancestor list of one pair whose walk meets no failed fetch.
RefBetween(top, bottom) ==
    LET c == FirstParentChain(top)
        path == c \o <<ChainEnd(top)>>
    IN  IF OnChain(bottom, path) THEN Sparse(path, PosOn(bottom, path))
        ELSE Sparse(c, Len(c))

\* C1: for a first-parent chain c0 = top, ..., cN = bottom (N >= 1, all
\* stored), the list collected for the pair, and returned for it, is exactly
\* [ci : i a power of two, 1 <= i < N] in increasing i, and holds neither top
\* nor bottom.
C1_SparseChain ==
    \A j \in 1..Len(out) :
        LET c == FirstParentChain(Top(j)) IN
        (OnChain(Bottom(j), c) /\ PosOn(Bottom(j), c) >= 1) =>
            /\ out[j] = Sparse(c, PosOn(Bottom(j), c))
            /\ Top(j) \notin SeqRange(out[j])
            /\ Bottom(j) \notin SeqRange(out[j])
            /\ (resp.st = "ok" => resp.lists[j] = out[j])

\* A chain of 10 commits answered with positions 1, 2, 4, 8.
C1_Witness ==
    /\ pairs = << <<ChainLen, ChainLen - 9>> >>
    /\ resp.st = "ok"
    /\ resp.lists =
         << <<ChainLen - 1, ChainLen - 2, ChainLen - 4, ChainLen - 8>> >>

\* C2: the answer is one list with one ancestor list per input pair, the
\* j-th being the ancestor list of the j-th pair, however the fetches complete.
C2_OnePerPairInOrder ==
    resp.st = "ok" =>
        /\ Len(resp.lists) = Len(pairs)
        /\ \A j \in PairIx : resp.lists[j] = RefBetween(Top(j), Bottom(j))

C2_Witness ==
    /\ resp.st = "ok"
    /\ Len(pairs) = 2
    /\ resp.lists[1] # resp.lists[2]
    /\ resp.lists[1] # <<>>
    /\ resp.lists[2] # <<>>

\* C3: a pair with top = bottom (stored or not), or with the null hash as top,
\* gets the empty list and issues no changeset fetch; asked alone it succeeds.
C3_EqualPairEmpty ==
    \A j \in PairIx :
        (Top(j) = Bottom(j) \/ Top(j) = NULL_HASH) =>
            /\ fetched[j] = <<>>
            /\ wait_cs[j] = "None"
            /\ (j <= Len(out) => out[j] = <<>>)
            /\ (resp.st = "ok" => resp.lists[j] = <<>>)
            /\ (Len(pairs) = 1 => bPc # "failed")

C3_Witness ==
    /\ pairs = << <<Missing, Missing>> >>
    /\ resp = [st |-> "ok", lists |-> << <<>> >>]
    /\ fetched[1] = <<>>

\* C4: when bottom is not on the first-parent chain of top and that chain is
\* finite and wholly stored, the walk fetches each changeset of the chain at
\* most once and in chain order, ends at the null hash with the positions
\* 1, 2, 4, ... of the whole chain, and fails only if the blobstore does.
IsPrefix(s, t) == Len(s) <= Len(t) /\ \A i \in 1..Len(s) : s[i] = t[i]

C4_UnreachableBottom ==
    \A j \in PairIx :
        LET c == FirstParentChain(Top(j)) IN
        (ChainComplete(Top(j)) /\ ~OnChain(Bottom(j), c)
           /\ Top(j) # Bottom(j)) =>
            /\ IsPrefix(fetched[j], c)
            /\ (j <= Len(out) =>
                  /\ fetched[j] = c
                  /\ n[j] = NULL_HASH
                  /\ out[j] = Sparse(c, Len(c)))
            /\ ((Len(pairs) = 1 /\ ~storeErr) => bPc # "failed")

C4_Witness ==
    /\ pairs = << <<Merge, ChainLen>> >>
    /\ resp = [st |-> "ok", lists |-> << <<Side1, 3, 1>> >>]
    /\ fetched[1] = <<Merge, Side1, 3, 2, 1>>

\* C5: a failed fetch fails the whole command: the answer is an error with
\* no ancestor lists, whatever was already walked; and an answer with lists
\* is given only when no fetch failed and no walk met a missing changeset.
WalkMeetsMissing(j) ==
    LET c == FirstParentChain(Top(j)) IN
    /\ ~OnChain(Bottom(j), c)
    /\ ChainEnd(Top(j)) \notin {NULL_HASH, Bottom(j)}

C5_FailedFetchFailsAll ==
    /\ bPc = "failed" =>
          /\ resp = [st |-> "err", lists |-> <<>>]
          /\ wait_cs[cur] = "ReadyErr"
    /\ \A j \in PairIx :
          wait_cs[j] = "ReadyErr" =>
              /\ resp.st # "ok"
              /\ n[j] = fetched[j][Len(fetched[j])]
              /\ Len(out) < j
    /\ resp.st = "ok" =>
          /\ ~storeErr
          /\ \A j \in PairIx : ~WalkMeetsMissing(j)
          /\ \A j \in PairIx : SeqRange(fetched[j]) \subseteq Stored

\* The second pair fails after the first was walked to a non-empty list.
C5_Witness ==
    /\ bPc = "failed"
    /\ Len(pairs) = 2
    /\ Len(out) = 1
    /\ out[1] # <<>>
    /\ resp.lists = <<>>

\* C6 as claimed: the pairs are walked concurrently, so a pair whose walk has
\* not ended and has no fetch outstanding can issue its fetch whether or not
\* the earlier pairs have finished.
C6_Claimed ==
    \A j \in PairIx :
        (bPc = "running" /\ j >= cur /\ ~AtEnd(j) /\ wait_cs[j] = "None")
            => ENABLED PollFetch(j)

\* C6 as amended: the pairs are walked one at a time in input order; a pair
\* has a fetch outstanding, or has fetched anything, only when the walks of
\* all earlier pairs have ended and their lists are collected.
C6_OnePairAtATime ==
    \A j \in PairIx :
        (wait_cs[j] # "None" \/ fetched[j] # <<>>) =>
            /\ j <= cur
            /\ Len(out) >= j - 1
            /\ \A i \in 1..(j - 1) : AtEnd(i) /\ wait_cs[i] = "None"

\* The first pair waits for a fetch while the second has work to do and has
\* not started.
C6_Witness ==
    /\ Len(pairs) = 2
    /\ cur = 1
    /\ wait_cs[1] = "Pending"
    /\ ~AtEnd(2)
    /\ fetched[2] = <<>>

(***************************************************************************)
(* Manifests.  A manifest is a set of entries [name, type, hash]; names    *)
(* are positive numbers, and a path is a sequence of names.                *)
(*                                                                         *)
(*   MfBase  1:TA0/   2:TB/   3:file 41     4:TD/                          *)
(*   MfT1    1:TA1/   2:TB/   3:file 42               5:TD/                *)
(*   MfT2    1:TA1/   2:TB2/  3:TS0/                                       *)
(*   TA0     1:TS0/   2:file 43                                            *)
(*   TA1     1:TS1/   2:file 44                                            *)
(*   TS0     1:file 45                                                     *)
(*   TS1     1:file 46        2:TT/                                        *)
(*   TT      1:file 47        2:TU/                                        *)
(*   TU      1:file 50                                                     *)
(*   TB      1:file 48                                                     *)
(*   TB2     1:file 49                                                     *)
(*   TD      1:TT/                                                         *)
(*                                                                         *)
(* Against MfBase, MfT1 modifies directory 1, modifies file 3 and moves    *)
(* directory 4 to 5, so that TT sits at 1/1/2 (depth 3) and at 5/1         *)
(* (depth 2); MfT2 modifies directories 1 and 2, replaces file 3 by a      *)
(* directory and deletes directory 4.                                      *)
(***************************************************************************)
MfBase == 21

MfT1 == 22

MfT2 == 23

TA0 == 24

TA1 == 25

TS0 == 26

TS1 == 27

TT == 28

TU == 29

TB == 30

TB2 == 31

TD == 32

ManifestEntry(nm, ty, h) == [name |-> nm, type |-> ty, hash |-> h]

\* BlobRepo::get_manifest_by_nodeid; the null hash names the empty manifest.
Manifest(h) ==
    CASE h = MfBase -> {ManifestEntry(1, "Tree", TA0), ManifestEntry(2, "Tree", TB),
                        ManifestEntry(3, "File", 41), ManifestEntry(4, "Tree", TD)}
      [] h = MfT1 -> {ManifestEntry(1, "Tree", TA1), ManifestEntry(2, "Tree", TB),
                      ManifestEntry(3, "File", 42), ManifestEntry(5, "Tree", TD)}
      [] h = MfT2 -> {ManifestEntry(1, "Tree", TA1), ManifestEntry(2, "Tree", TB2),
                      ManifestEntry(3, "Tree", TS0)}
      [] h = TA0 -> {ManifestEntry(1, "Tree", TS0), ManifestEntry(2, "File", 43)}
      [] h = TA1 -> {ManifestEntry(1, "Tree", TS1), ManifestEntry(2, "File", 44)}
      [] h = TS0 -> {ManifestEntry(1, "File", 45)}
      [] h = TS1 -> {ManifestEntry(1, "File", 46), ManifestEntry(2, "Tree", TT)}
      [] h = TT -> {ManifestEntry(1, "File", 47), ManifestEntry(2, "Tree", TU)}
      [] h = TU -> {ManifestEntry(1, "File", 50)}
      [] h = TB -> {ManifestEntry(1, "File", 48)}
      [] h = TB2 -> {ManifestEntry(1, "File", 49)}
      [] h = TD -> {ManifestEntry(1, "Tree", TT)}
      [] OTHER -> {}

(***************************************************************************)
(* The diff of two manifests: changed entries in the order of their names. *)
(* A changed entry carries the directory it is in, its name, its status,   *)
(* the type and hash of the entry it is about (the new entry of an         *)
(* addition or modification, the old one of a deletion), the hash it       *)
(* replaces, and its depth below the root.                                 *)
(***************************************************************************)
ChangedEntry(dir, st, e, from, d) ==
    [dir |-> dir, name |-> e.name, status |-> st, type |-> e.type,
     hash |-> e.hash, from |-> from, depth |-> d]

DiffAt(to, from, nm, dir, d) ==
    LET ts == {e \in to : e.name = nm}
        fs == {e \in from : e.name = nm}
        te == CHOOSE e \in ts : TRUE
        fe == CHOOSE e \in fs : TRUE
    IN  IF ts = {} /\ fs = {} THEN <<>>
        ELSE IF fs = {} THEN <<ChangedEntry(dir, "Added", te, NULL_HASH, d)>>
        ELSE IF ts = {} THEN <<ChangedEntry(dir, "Deleted", fe, fe.hash, d)>>
        ELSE IF te.type # fe.type
             THEN <<ChangedEntry(dir, "Added", te, NULL_HASH, d),
                    ChangedEntry(dir, "Deleted", fe, fe.hash, d)>>
        ELSE IF te.hash # fe.hash
             THEN <<ChangedEntry(dir, "Modified", te, fe.hash, d)>>
        ELSE <<>>

RECURSIVE DiffNames(_, _, _, _, _)
DiffNames(names, to, from, dir, d) ==
    IF names = {} THEN <<>>
    ELSE LET nm == CHOOSE x \in names : \A y \in names : x <= y
         IN  DiffAt(to, from, nm, dir, d)
                \o DiffNames(names \ {nm}, to, from, dir, d)

DiffManifests(to, from, dir, d) ==
    DiffNames({e.name : e \in to \cup from}, to, from, dir, d)

(***************************************************************************)
(* Pruners.  A pruner is a record [k |-> kind], a combination is           *)
(* [k |-> "Or", a |-> A, b |-> B].  Prunes tells whether the pruner skips  *)
(* the entry given the visited set v, After is the visited set once the    *)
(* pruner has been asked.                                                  *)
(***************************************************************************)
FilePruner == [k |-> "File"]

DeletedPruner == [k |-> "Deleted"]

VisitedPruner == [k |-> "Visited"]

AlwaysPrune == [k |-> "Always"]

NeverPrune == [k |-> "Never"]

CombinatorPruner(A, B) == [k |-> "Or", a |-> A, b |-> B]

RECURSIVE Prunes(_, _, _)
RECURSIVE After(_, _, _)
Prunes(p, e, v) ==
    CASE p.k = "File" -> e.type # "Tree"
      [] p.k = "Deleted" -> e.status = "Deleted"
      [] p.k = "Visited" -> e.hash \in v
      [] p.k = "Always" -> TRUE
      [] p.k = "Never" -> FALSE
      [] p.k = "Or" -> Prunes(p.a, e, v) \/ Prunes(p.b, e, After(p.a, e, v))

After(p, e, v) ==
    CASE p.k = "Visited" -> v \cup {e.hash}
      [] p.k = "Or" -> IF Prunes(p.a, e, v)
                       THEN After(p.a, e, v)
                       ELSE After(p.b, e, After(p.a, e, v))
      [] OTHER -> v

\* The pruner is asked about the entries of a diff one after the other.
RECURSIVE KeepFold(_, _, _)
KeepFold(p, s, v) ==
    IF s = <<>> THEN [kept |-> {}, visited |-> v]
    ELSE LET e == Head(s)
             rest == KeepFold(p, Tail(s), After(p, e, v))
         IN  [kept |-> IF Prunes(p, e, v) THEN rest.kept
                       ELSE rest.kept \cup {e},
              visited |-> rest.visited]

(***************************************************************************)
(* The walk: changed_entry_stream_with_pruner(to, from, path, pruner,      *)
(* Some(max_depth)).  The entries of the root diff have depth 1; an entry  *)
(* the pruner kept is yielded, and when it is a directory above the depth  *)
(* bound the diff of its two versions is walked in turn.                   *)
(***************************************************************************)
RootDiff(p, to, from, dir, maxd, v) ==
    IF maxd = 0 THEN [kept |-> {}, visited |-> v]
    ELSE KeepFold(p, DiffManifests(Manifest(to), Manifest(from), dir, 1), v)

Descends(e, maxd) == e.type = "Tree" /\ e.depth < maxd

SubTo(e) == IF e.status = "Deleted" THEN {} ELSE Manifest(e.hash)

SubFrom(e) == IF e.status = "Added" THEN {} ELSE Manifest(e.from)

Expand(p, e, maxd, v) ==
    IF Descends(e, maxd)
    THEN KeepFold(p, DiffManifests(SubTo(e), SubFrom(e),
                                   Append(e.dir, e.name), e.depth + 1), v)
    ELSE [kept |-> {}, visited |-> v]

\* The manifests the walk reads to descend into e.
SubReads(e, maxd) ==
    IF ~Descends(e, maxd) THEN {}
    ELSE (IF e.status = "Deleted" THEN {} ELSE {<<"manifest", e.hash>>})
            \cup (IF e.status = "Added" THEN {} ELSE {<<"manifest", e.from>>})

(***************************************************************************)
(* gettreepack                                                             *)
(***************************************************************************)
\* The most target manifests in a request, and the records that may be in
\* preparation at a time.
MaxTargets == 2

MaxQueued == 1

TargetHashes == {MfT1, MfT2}

TargetSeqs == UNION {[1..k -> TargetHashes] : k \in 0..MaxTargets}

BaseSeqs == {<<>>, <<MfBase>>, <<MfT1>>, <<MfBase, MfT1>>}

\* depth is an Option: <<>> is None, <<d>> is Some(d).
Depths == {<<>>, <<1>>, <<2>>, <<3>>}

\* rootdir: the empty path and a path MPath::new rejects (a path element
\* that is not a name).
RootDirs == {<<>>, <<0>>}

MPathValid(r) == \A i \in 1..Len(r) : r[i] > 0

Directories == {<<>>, <<"dir">>}

GtpArgs ==
    [mfnodes : TargetSeqs, basemfnodes : BaseSeqs, depth : Depths,
     rootdir : RootDirs, directories : Directories]

TargetIx == 1..Len(gtpArgs.mfnodes)

\* params.depth.unwrap_or(2 << 16)
fetchdepth == IF gtpArgs.depth = <<>> THEN 2 * (2 ^ 16) ELSE gtpArgs.depth[1]

\* The last of the bases given instead of the first.
basemfnode_last ==
    IF Len(gtpArgs.basemfnodes) = 0 THEN NULL_HASH
    ELSE gtpArgs.basemfnodes[Len(gtpArgs.basemfnodes)]

\* params.basemfnodes.get(0).cloned().unwrap_or(NULL_HASH)
basemfnode ==
    IF Len(gtpArgs.basemfnodes) = 0 THEN NULL_HASH ELSE gtpArgs.basemfnodes[1]

rootpath == gtpArgs.rootdir

DirectoriesAccepted(args) == FALSE

DirectoriesGiven(args) == args.directories # <<>>

default_pruner_files_only == FilePruner

default_pruner == CombinatorPruner(FilePruner, DeletedPruner)

VisitedFirst == CombinatorPruner(VisitedPruner, default_pruner)

MultiTargetPruner == CombinatorPruner(default_pruner, VisitedPruner)

\* The pruner each per-target walk is given.
WalkPruner(args) ==
    IF Len(args.mfnodes) > 1 THEN MultiTargetPruner ELSE default_pruner

InitGettreepack ==
    /\ SessionIdle
    /\ dropped = FALSE
    /\ LateIdle
    /\ GenerationIdle
    /\ BetweenIdle
    /\ GetfilesIdle
    /\ PrunerIdle
    /\ LookupIdle
    /\ gtpArgs \in GtpArgs
    /\ gtpPc = "call"
    /\ gtpErr = "none"
    /\ used_hashes = {}
    /\ gtpQueue = <<>>
    /\ gtpOut = EmptyBag
    /\ gtpReads = {}
    /\ gtpLookupFailed = FALSE
    /\ wPc = [i \in TargetIx |-> "start"]
    /\ wTodo = [i \in TargetIx |-> {}]
    /\ wYielded = [i \in TargetIx |-> {}]
    /\ visited = {}

\* gettreepack_untimed up to the construction of the response stream.
GtpCall ==
    /\ gtpPc = "call"
    /\ IF DirectoriesGiven(gtpArgs)
       THEN /\ gtpPc' = "failed"
            /\ gtpErr' = "directories param is not supported"
       ELSE IF ~MPathValid(gtpArgs.rootdir)
       THEN /\ gtpPc' = "failed"
            /\ gtpErr' = "invalid path"
       ELSE /\ gtpPc' = "streaming"
            /\ gtpErr' = "none"
    /\ UNCHANGED <<gtpArgs, used_hashes, gtpQueue, gtpOut, gtpReads,
                   gtpLookupFailed, walkVars>>

\* if max_depth == 1 { return root_entry_stream.boxify(); }
ShortCircuitNever(maxd) == FALSE

ShortCircuit(maxd) == maxd = 1

\* The records in preparation leave room for the next entry.
GtpHasRoom == Len(gtpQueue) < MaxQueued

\* The first poll of the walk of target i: both root manifests are fetched
\* and their diff is put before the pruner.
WalkStart(i) ==
    /\ gtpPc = "streaming"
    /\ wPc[i] = "start"
    /\ ~ShortCircuit(fetchdepth)
    /\ LET r == RootDiff(WalkPruner(gtpArgs), gtpArgs.mfnodes[i], basemfnode,
                         rootpath, fetchdepth, visited)
       IN  /\ wTodo' = [wTodo EXCEPT ![i] = r.kept]
           /\ visited' = r.visited
    /\ wPc' = [wPc EXCEPT ![i] = "walk"]
    /\ gtpReads' = gtpReads \cup {<<"manifest", gtpArgs.mfnodes[i]>>,
                                  <<"manifest", basemfnode>>}
    /\ UNCHANGED <<gtpArgs, gtpPc, gtpErr, used_hashes, gtpQueue, gtpOut,
                   gtpLookupFailed, wYielded>>

\* What a failed repository read makes of the response stream.
LookupFailureSkipped == [pc |-> "streaming", err |-> "none"]

LookupFailure == [pc |-> "failed", err |-> "fetch failed"]

\* The fetch of the target or of the base root manifest fails.
WalkStartErr(i) ==
    /\ gtpPc = "streaming"
    /\ wPc[i] = "start"
    /\ ~ShortCircuit(fetchdepth)
    /\ gtpPc' = LookupFailure.pc
    /\ gtpErr' = LookupFailure.err
    /\ gtpLookupFailed' = TRUE
    /\ UNCHANGED <<gtpArgs, used_hashes, gtpQueue, gtpOut, gtpReads, walkVars>>

\* used_hashes.insert(hash) returns true
Fresh(h) == h \notin used_hashes

\* .filter(used_hashes.insert(..)).map(fetch_treepack_part_input)
Filtered(e) ==
    /\ used_hashes' = used_hashes \cup {e.hash}
    /\ gtpQueue' = IF Fresh(e.hash) THEN Append(gtpQueue, e) ELSE gtpQueue

\* The stream of target i yields the changed entry e: the status is matched
\* (lines 760-771), the entry passes the filter, and the walk descends.
WalkYield(i, e) ==
    /\ gtpPc = "streaming"
    /\ wPc[i] = "walk"
    /\ e \in wTodo[i]
    /\ GtpHasRoom
    /\ IF e.status = "Deleted"
       THEN /\ gtpPc' = "panicked"
            /\ gtpErr' = "DeletedPruner should have removed deleted entries"
            /\ UNCHANGED <<used_hashes, gtpQueue, gtpReads, walkVars>>
       ELSE IF e.type # "Tree"
       THEN /\ gtpPc' = "panicked"
            /\ gtpErr' = "FilePruner should have removed file entries"
            /\ UNCHANGED <<used_hashes, gtpQueue, gtpReads, walkVars>>
       ELSE /\ LET x == Expand(WalkPruner(gtpArgs), e, fetchdepth, visited)
               IN  /\ wTodo' = [wTodo EXCEPT ![i] = (@ \ {e}) \cup x.kept]
                   /\ visited' = x.visited
            /\ wYielded' = [wYielded EXCEPT ![i] = @ \cup {e}]
            /\ Filtered(e)
            /\ gtpReads' = gtpReads \cup SubReads(e, fetchdepth)
            /\ UNCHANGED <<gtpPc, gtpErr, wPc>>
    /\ UNCHANGED <<gtpArgs, gtpOut, gtpLookupFailed>>

\* The fetch of a manifest of the directory e fails.
WalkSubErr(i, e) ==
    /\ gtpPc = "streaming"
    /\ wPc[i] = "walk"
    /\ e \in wTodo[i]
    /\ e.status # "Deleted"
    /\ Descends(e, fetchdepth)
    /\ gtpPc' = LookupFailure.pc
    /\ gtpErr' = LookupFailure.err
    /\ gtpLookupFailed' = TRUE
    /\ UNCHANGED <<gtpArgs, used_hashes, gtpQueue, gtpOut, gtpReads, walkVars>>

\* repo.get_root_entry(&mfid) with rootpath
RootEntry(i) ==
    [dir |-> rootpath, name |-> 0, status |-> "Root", type |-> "Tree",
     hash |-> gtpArgs.mfnodes[i], from |-> NULL_HASH, depth |-> 0]

RootDueEarly(i) ==
    \/ ShortCircuit(fetchdepth) /\ wPc[i] = "start"
    \/ wPc[i] = "walk"

\* The root entry stream is the whole stream (depth 1), or it is chained
\* after the changed entries.
RootDue(i) ==
    \/ ShortCircuit(fetchdepth) /\ wPc[i] = "start"
    \/ wPc[i] = "walk" /\ wTodo[i] = {}

\* The stream of target i yields the root entry and ends.
WalkRoot(i) ==
    /\ gtpPc = "streaming"
    /\ RootDue(i)
    /\ GtpHasRoom
    /\ wYielded' = [wYielded EXCEPT ![i] = @ \cup {RootEntry(i)}]
    /\ wPc' = [wPc EXCEPT ![i] = "done"]
    /\ Filtered(RootEntry(i))
    /\ UNCHANGED <<gtpArgs, gtpPc, gtpErr, gtpOut, gtpReads, gtpLookupFailed,
                   wTodo, visited>>

\* parts::TreepackPartInput, without the data read from the repository
TreepackPartInput(e) == [node |-> e.hash, name |-> e.name, basepath |-> e.dir]

\* fetch_treepack_part_input of the oldest entry in preparation: parents,
\* linknode and raw content are there.
GtpRecord ==
    /\ gtpPc = "streaming"
    /\ gtpQueue # <<>>
    /\ gtpOut' = gtpOut (+) SetToBag({TreepackPartInput(Head(gtpQueue))})
    /\ gtpQueue' = Tail(gtpQueue)
    /\ gtpReads' = gtpReads \cup {<<"entry", Head(gtpQueue).hash>>}
    /\ UNCHANGED <<gtpArgs, gtpPc, gtpErr, used_hashes, gtpLookupFailed,
                   walkVars>>

RecordReads == {"parents", "linknode", "raw content"}

\* One of the three joined reads of an entry in preparation fails.
GtpRecordErr(what) ==
    /\ gtpPc = "streaming"
    /\ gtpQueue # <<>>
    /\ gtpPc' = LookupFailure.pc
    /\ gtpErr' = LookupFailure.err
    /\ gtpLookupFailed' = TRUE
    /\ gtpReads' = gtpReads \cup {<<what, Head(gtpQueue).hash>>}
    /\ UNCHANGED <<gtpArgs, used_hashes, gtpQueue, gtpOut, walkVars>>

\* select_all has seen every per-target stream end and every record is out.
GtpEnd ==
    /\ gtpPc = "streaming"
    /\ \A i \in TargetIx : wPc[i] = "done"
    /\ gtpQueue = <<>>
    /\ gtpPc' = "done"
    /\ UNCHANGED <<gtpArgs, gtpErr, used_hashes, gtpQueue, gtpOut, gtpReads,
                   gtpLookupFailed, walkVars>>

NextGettreepack ==
    \/ GtpCall /\ UNCHANGED exceptGettreepack
    \/ \E i \in TargetIx : WalkStart(i) /\ UNCHANGED exceptGettreepack
    \/ \E i \in TargetIx : WalkStartErr(i) /\ UNCHANGED exceptGettreepack
    \/ \E i \in TargetIx : \E e \in wTodo[i] :
          WalkYield(i, e) /\ UNCHANGED exceptGettreepack
    \/ \E i \in TargetIx : \E e \in wTodo[i] :
          WalkSubErr(i, e) /\ UNCHANGED exceptGettreepack
    \/ \E i \in TargetIx : WalkRoot(i) /\ UNCHANGED exceptGettreepack
    \/ GtpRecord /\ UNCHANGED exceptGettreepack
    \/ \E what \in RecordReads :
          GtpRecordErr(what) /\ UNCHANGED exceptGettreepack
    \/ GtpEnd /\ UNCHANGED exceptGettreepack

SpecGettreepack == InitGettreepack /\ [][NextGettreepack]_vars

(***************************************************************************)
(* The walk on its own, under any pruner: one walk of `to` against `from`  *)
(* from the empty path.                                                    *)
(***************************************************************************)
Atoms == {FilePruner, DeletedPruner, VisitedPruner, AlwaysPrune, NeverPrune}

PrunerExprs ==
    Atoms \cup {CombinatorPruner(A, B) : A \in Atoms, B \in Atoms}
          \cup {MultiTargetPruner}

WalkDepths == {0, 1, 2, 3}

PrArgs ==
    [pruner : PrunerExprs, to : TargetHashes, from : {NULL_HASH, MfBase},
     depth : WalkDepths]

InitPruner ==
    /\ SessionIdle
    /\ dropped = FALSE
    /\ LateIdle
    /\ GenerationIdle
    /\ BetweenIdle
    /\ GetfilesIdle
    /\ GettreepackIdle
    /\ LookupIdle
    /\ prArgs \in PrArgs
    /\ wPc = <<"start">>
    /\ wTodo = <<{}>>
    /\ wYielded = <<{}>>
    /\ visited = {}

PrStart ==
    /\ wPc[1] = "start"
    /\ LET r == RootDiff(prArgs.pruner, prArgs.to, prArgs.from, <<>>,
                         prArgs.depth, visited)
       IN  /\ wTodo' = [wTodo EXCEPT ![1] = r.kept]
           /\ visited' = r.visited
    /\ wPc' = [wPc EXCEPT ![1] = "walk"]
    /\ UNCHANGED <<wYielded, prArgs>>

PrYield(e) ==
    /\ wPc[1] = "walk"
    /\ e \in wTodo[1]
    /\ LET x == Expand(prArgs.pruner, e, prArgs.depth, visited)
       IN  /\ wTodo' = [wTodo EXCEPT ![1] = (@ \ {e}) \cup x.kept]
           /\ visited' = x.visited
    /\ wYielded' = [wYielded EXCEPT ![1] = @ \cup {e}]
    /\ UNCHANGED <<wPc, prArgs>>

PrEnd ==
    /\ wPc[1] = "walk"
    /\ wTodo[1] = {}
    /\ wPc' = [wPc EXCEPT ![1] = "done"]
    /\ UNCHANGED <<wTodo, wYielded, visited, prArgs>>

NextPruner ==
    \/ PrStart /\ UNCHANGED exceptWalk
    \/ \E e \in wTodo[1] : PrYield(e) /\ UNCHANGED exceptWalk
    \/ PrEnd /\ UNCHANGED exceptWalk

SpecPruner == InitPruner /\ [][NextPruner]_vars

(***************************************************************************)
(* lookup.  The key is given by its two parses: node is                    *)
(* HgNodeHash::from_str(&key).ok() and bookmark is Bookmark::new(&key).ok()*)
(* (<<>> is None, <<x>> is Some(x)); the two parsers are not part of the   *)
(* command, and lookup matches on every pair of outcomes.  Changesets are  *)
(* 1 and 2, bookmark names are 1 and 2, and lkBookmarks[b] is the          *)
(* changeset bookmark b points to, or 0 when there is no such bookmark.    *)
(***************************************************************************)
LkChangesets == {1, 2}

LkNames == {1, 2}

LkKeys ==
    [node : {<<>>} \cup {<<c>> : c \in LkChangesets},
     bookmark : {<<>>} \cup {<<b>> : b \in LkNames}]

\* to_hex: the text of a hash
ToHex(h) == [fmt |-> "hex", of |-> h]

\* format!("{} not found", bookmark)
NotFound(b) == [fmt |-> "not found", of |-> b]

InvalidInputAsNotFound == [fmt |-> "not found", of |-> 0]

InvalidInput == [fmt |-> "invalid input", of |-> 0]

generate_resp_buf(success, message) ==
    <<IF success THEN "1" ELSE "0", " ", message, "\n">>

InitLookup ==
    /\ SessionIdle
    /\ dropped = FALSE
    /\ LateIdle
    /\ GenerationIdle
    /\ BetweenIdle
    /\ GetfilesIdle
    /\ GettreepackIdle
    /\ WalkIdle
    /\ PrunerIdle
    /\ lkKey \in LkKeys
    /\ lkExists \in SUBSET LkChangesets
    /\ lkBookmarks \in [LkNames -> {0} \cup LkChangesets]
    /\ lkPc = "call"
    /\ lkResp = <<>>
    /\ lkReads = <<>>

\* (Some(node), Some(bookmark))
HashFirst == lkKey.node # <<>> /\ lkKey.bookmark # <<>>

\* (None, Some(bookmark))
BookmarkOnly == lkKey.node = <<>> /\ lkKey.bookmark # <<>>

\* The match on (node, bookmark) and the first repository read.
LkCall ==
    /\ lkPc = "call"
    /\ IF HashFirst
       THEN /\ lkPc' = "exists"
            /\ lkReads' = Append(lkReads, "changeset_exists")
            /\ UNCHANGED lkResp
       ELSE IF BookmarkOnly
       THEN /\ lkPc' = "bookmark"
            /\ lkReads' = Append(lkReads, "get_bookmark")
            /\ UNCHANGED lkResp
       ELSE /\ lkPc' = "done"
            /\ lkResp' = generate_resp_buf(FALSE, InvalidInput)
            /\ UNCHANGED lkReads
    /\ UNCHANGED <<lkKey, lkExists, lkBookmarks>>

ExistsAnswerNever == FALSE

ExistsAnswerBookmarkFirst ==
    lkKey.node[1] \in lkExists /\ lkBookmarks[lkKey.bookmark[1]] = 0

\* What repo.changeset_exists(&csid) answers.
ExistsAnswer == lkKey.node[1] \in lkExists

\* changeset_exists resolves: the hash answers, or the bookmark is read.
LkExists ==
    /\ lkPc = "exists"
    /\ IF ExistsAnswer
       THEN /\ lkPc' = "done"
            /\ lkResp' = generate_resp_buf(TRUE, ToHex(lkKey.node[1]))
            /\ UNCHANGED lkReads
       ELSE /\ lkPc' = "bookmark"
            /\ lkReads' = Append(lkReads, "get_bookmark")
            /\ UNCHANGED lkResp
    /\ UNCHANGED <<lkKey, lkExists, lkBookmarks>>

\* A failed changeset_exists answered with a failure record.
LkExistsErrAsNotFound ==
    /\ lkPc = "exists"
    /\ lkPc' = "failed"
    /\ lkResp' = generate_resp_buf(FALSE, NotFound(lkKey.bookmark[1]))
    /\ UNCHANGED <<lkKey, lkExists, lkBookmarks, lkReads>>

\* changeset_exists fails.
LkExistsErr ==
    /\ lkPc = "exists"
    /\ lkPc' = "failed"
    /\ UNCHANGED <<lkKey, lkExists, lkBookmarks, lkResp, lkReads>>

BookmarkRecordAlwaysFound(b) ==
    generate_resp_buf(TRUE, ToHex(lkBookmarks[b]))

\* check_bookmark_exists: the record for what get_bookmark returned
BookmarkRecord(b) ==
    IF lkBookmarks[b] # 0
    THEN generate_resp_buf(TRUE, ToHex(lkBookmarks[b]))
    ELSE generate_resp_buf(FALSE, NotFound(b))

\* get_bookmark resolves.
LkBookmark ==
    /\ lkPc = "bookmark"
    /\ lkPc' = "done"
    /\ lkResp' = BookmarkRecord(lkKey.bookmark[1])
    /\ UNCHANGED <<lkKey, lkExists, lkBookmarks, lkReads>>

\* get_bookmark fails.
LkBookmarkErr ==
    /\ lkPc = "bookmark"
    /\ lkPc' = "failed"
    /\ UNCHANGED <<lkKey, lkExists, lkBookmarks, lkResp, lkReads>>

NextLookup ==
    \/ LkCall /\ UNCHANGED exceptLookup
    \/ LkExists /\ UNCHANGED exceptLookup
    \/ LkExistsErr /\ UNCHANGED exceptLookup
    \/ LkBookmark /\ UNCHANGED exceptLookup
    \/ LkBookmarkErr /\ UNCHANGED exceptLookup

SpecLookup == InitLookup /\ [][NextLookup]_vars

(***************************************************************************)
(* gettreepack: what the walks should find.                                *)
(***************************************************************************)
\* The hashes of the directories added or modified from `from` to `to`, at
\* depths d..maxd.
RECURSIVE RefChangedDirs(_, _, _, _)
RefChangedDirs(to, from, d, maxd) ==
    LET dirs == {c \in SeqRange(DiffManifests(to, from, <<>>, d)) :
                    c.type = "Tree" /\ c.status # "Deleted"}
    IN  UNION {{c.hash} \cup (IF d < maxd
                              THEN RefChangedDirs(SubTo(c), SubFrom(c), d + 1, maxd)
                              ELSE {}) : c \in dirs}

\* The hashes a single-target request for t is to answer with.
RefTreepack(t, b, maxd) ==
    {t} \cup (IF maxd <= 1 THEN {}
              ELSE RefChangedDirs(Manifest(t), Manifest(b), 1, maxd))

OutRecords == BagToSet(gtpOut)

OutHashes == {r.node : r \in OutRecords}

SameTargetTwice ==
    /\ gtpPc = "done"
    /\ Len(gtpArgs.mfnodes) = 2
    /\ gtpArgs.mfnodes[1] = gtpArgs.mfnodes[2]

\* C11 as claimed: no two tree records of a response carry the same hash,
\* and a completed request that names the same target manifest twice has
\* emitted every changed hash exactly once.
C11_Claimed ==
    /\ \A r \in OutRecords : CopiesIn(r, gtpOut) = 1
    /\ \A r1, r2 \in OutRecords : r1.node = r2.node => r1 = r2
    /\ SameTargetTwice =>
          OutHashes = RefTreepack(gtpArgs.mfnodes[1], basemfnode, fetchdepth)

\* C11 witness of the divergence: the same target twice, depth 3, a
\* completed response without the directory TU of MfT1.
C11_Lost ==
    /\ SameTargetTwice
    /\ gtpArgs.mfnodes[1] = MfT1
    /\ basemfnode = MfBase
    /\ fetchdepth = 3
    /\ TU \in RefTreepack(MfT1, MfBase, 3)
    /\ TU \notin OutHashes

Targets == SeqRange(gtpArgs.mfnodes)

\* C12: with depth 1 the response holds the root entries of the targets and
\* nothing else (one record when there is one target), and each per-target
\* stream holds no changed entry and yields its root entry only.
C12_DepthOneRootsOnly ==
    gtpArgs.depth = <<1>> =>
        /\ \A r \in OutRecords :
              r.node \in Targets /\ r.name = 0 /\ r.basepath = gtpArgs.rootdir
        /\ \A i \in TargetIx : wTodo[i] = {} /\ wYielded[i] \subseteq {RootEntry(i)}
        /\ gtpPc = "done" =>
              /\ OutHashes = Targets
              /\ BagCardinality(gtpOut) = Cardinality(Targets)

C12_Witness ==
    /\ gtpPc = "done"
    /\ gtpArgs.depth = <<1>>
    /\ gtpArgs.mfnodes = <<MfT1>>
    /\ gtpArgs.basemfnodes = <<MfBase>>
    /\ RefTreepack(MfT1, MfBase, 3) # {MfT1}
    /\ OutHashes = {MfT1}
    /\ BagCardinality(gtpOut) = 1

\* C13: the entries a walk of gettreepack holds or yields are directories
\* that were added or modified (or the root entry), so neither the assertion
\* nor the panic of the status match is reached, and only directories are
\* put in preparation.
C13_OnlyChangedDirs ==
    /\ gtpPc # "panicked"
    /\ \A i \in TargetIx :
          /\ \A e \in wTodo[i] :
                e.type = "Tree" /\ e.status \in {"Added", "Modified"}
          /\ \A e \in wYielded[i] :
                e.type = "Tree" /\ e.status \in {"Added", "Modified", "Root"}
    /\ \A k \in 1..Len(gtpQueue) :
          gtpQueue[k].type = "Tree" /\ gtpQueue[k].status # "Deleted"

C13_Witness ==
    /\ gtpPc = "done"
    /\ gtpArgs.mfnodes = <<MfT2>>
    /\ basemfnode = MfBase
    /\ \E c \in SeqRange(DiffManifests(Manifest(MfT2), Manifest(MfBase), <<>>, 1)) :
          c.status = "Deleted" /\ c.type = "Tree"
    /\ \E c \in SeqRange(DiffManifests(Manifest(MfT2), Manifest(MfBase), <<>>, 1)) :
          c.status = "Deleted" /\ c.type = "File"
    /\ \E e \in wYielded[1] : e.status = "Added"
    /\ \E e \in wYielded[1] : e.status = "Modified"

YieldedHashes(i) == {e.hash : e \in wYielded[i]}

RootLast(i) ==
    /\ RootEntry(i) \in wYielded[i] => wPc[i] = "done" /\ wTodo[i] = {}
    /\ wPc[i] = "done" => RootEntry(i) \in wYielded[i]
    /\ wPc[i] = "done" /\ Len(gtpArgs.mfnodes) = 1 =>
          YieldedHashes(i) = RefTreepack(gtpArgs.mfnodes[i], basemfnode, fetchdepth)

\* C14: with depth greater than 1 the stream of a target yields the root
\* entry of the target when no changed entry is left to yield, every stream
\* that has ended has yielded it (also when nothing changed), and nothing is
\* yielded after it.
C14_RootEntryLast ==
    /\ [](\A i \in TargetIx : fetchdepth > 1 => RootLast(i))
    /\ [][\A i \in TargetIx :
             fetchdepth > 1 /\ RootEntry(i) \in wYielded[i]
                => wYielded'[i] = wYielded[i]]_vars

C14_Witness ==
    /\ gtpPc = "done"
    /\ fetchdepth > 1
    /\ gtpArgs.mfnodes = <<MfT1>>
    /\ basemfnode = MfT1
    /\ wYielded[1] = {RootEntry(1)}
    /\ OutHashes = {MfT1}

\* C15: a request with a non-empty directories parameter ends at once with
\* the error 'directories param is not supported': the response stream is
\* never built, no record is emitted, nothing is read and no walk starts.
C15_DirectoriesRejected ==
    gtpArgs.directories # <<>> =>
        /\ gtpPc \in {"call", "failed"}
        /\ gtpPc = "failed" => gtpErr = "directories param is not supported"
        /\ gtpOut = EmptyBag
        /\ gtpQueue = <<>>
        /\ gtpReads = {}
        /\ \A i \in TargetIx : wPc[i] = "start" /\ wYielded[i] = {}

C15_Witness ==
    /\ gtpArgs.directories # <<>>
    /\ gtpPc = "failed"
    /\ ~MPathValid(gtpArgs.rootdir)
    /\ gtpArgs.mfnodes = <<MfT1, MfT2>>
    /\ gtpArgs.depth = <<1>>

\* C16: once a repository read of a gettreepack has failed the response
\* stream has ended with an error, and a stream that has ended with an error
\* emits no further record.
C16_LookupFailureFailsStream ==
    /\ [](gtpLookupFailed => gtpPc = "failed" /\ gtpErr # "none")
    /\ [][gtpPc = "failed" => gtpPc' = "failed" /\ gtpOut' = gtpOut]_vars

C16_Witness ==
    /\ gtpLookupFailed
    /\ gtpPc = "failed"
    /\ gtpOut # EmptyBag
    /\ \E rd \in gtpReads : rd[1] = "linknode"

(***************************************************************************)
(* The walk on its own: what a pruner should let through.                  *)
(***************************************************************************)
RECURSIVE AtomsOf(_)
AtomsOf(p) == IF p.k = "Or" THEN AtomsOf(p.a) \cup AtomsOf(p.b) ELSE {p}

Stateless(p) == VisitedPruner \notin AtomsOf(p)

\* The changed entries at depths d..maxd that no atom of p prunes, below
\* directories that no atom of p prunes.
RECURSIVE RefVisit(_, _, _, _, _, _)
RefVisit(p, to, from, dir, d, maxd) ==
    LET kept == {c \in SeqRange(DiffManifests(to, from, dir, d)) :
                    \A a \in AtomsOf(p) : ~Prunes(a, c, {})}
    IN  kept \cup UNION {IF Descends(c, maxd)
                         THEN RefVisit(p, SubTo(c), SubFrom(c),
                                       Append(c.dir, c.name), d + 1, maxd)
                         ELSE {} : c \in kept}

RefWalk(p, to, from, maxd) ==
    IF maxd = 0 THEN {}
    ELSE RefVisit(p, Manifest(to), Manifest(from), <<>>, 1, maxd)

Kept == wTodo[1] \cup wYielded[1]

\* C17: a walk under a combination of stateless pruners visits exactly the
\* entries that neither part prunes (so under Combine(NeverPrune,
\* NeverPrune) every entry of the diff, and under Combine(AlwaysPrune, P)
\* none); under Combine(AlwaysPrune, P) the pruner P is not asked, so a
\* VisitedPruner P records nothing; and the VisitedPruner of
\* Combine(A, VisitedPruner) records the hashes of the entries A lets
\* through and no other.
C17_ShortCircuitOr ==
    LET p == prArgs.pruner
        ref == RefWalk(p, prArgs.to, prArgs.from, prArgs.depth)
    IN  /\ Stateless(p) =>
              /\ Kept \subseteq ref
              /\ wPc[1] = "done" => wYielded[1] = ref
              /\ visited = {}
        /\ p.k = "Or" /\ p.a = AlwaysPrune => Kept = {} /\ visited = {}
        /\ p.k = "Or" /\ p.b = VisitedPruner /\ Stateless(p.a) =>
              /\ visited = {e.hash : e \in Kept}
              /\ \A e \in Kept : ~Prunes(p.a, e, {})
        /\ p = MultiTargetPruner =>
              /\ visited \subseteq {e.hash : e \in Kept}
              /\ \A e \in Kept : e.type = "Tree" /\ e.status # "Deleted"

C17_Witness ==
    /\ prArgs.pruner = MultiTargetPruner
    /\ prArgs.to = MfT2
    /\ prArgs.from = MfBase
    /\ prArgs.depth = 3
    /\ wPc[1] = "done"
    /\ visited = {TA1, TB2, TS0, TS1, TT}
    /\ \E c \in RefWalk(CombinatorPruner(NeverPrune, NeverPrune), MfT2, MfBase, 3) :
          c.status = "Deleted" /\ c.hash \notin visited

(***************************************************************************)
(* lookup: the records expected.                                           *)
(***************************************************************************)
HashRecord(c) == <<"1", " ", [fmt |-> "hex", of |-> c], "\n">>

NotFoundRecord(b) == <<"0", " ", [fmt |-> "not found", of |-> b], "\n">>

InvalidInputRecord == <<"0", " ", [fmt |-> "invalid input", of |-> 0], "\n">>

KeyIsExistingHash == lkKey.node # <<>> /\ lkKey.node[1] \in lkExists

KeyIsBookmarkName == lkKey.bookmark # <<>>

\* C18: for a key that is the hash of an existing changeset and the name of
\* a bookmark that points to another changeset, the bookmarks are never
\* read and the response is the success record with the hash of the key.
C18_HashWinsOverBookmark ==
    (/\ KeyIsExistingHash
     /\ KeyIsBookmarkName
     /\ lkBookmarks[lkKey.bookmark[1]] \notin {0, lkKey.node[1]}) =>
        /\ "get_bookmark" \notin SeqRange(lkReads)
        /\ lkPc # "bookmark"
        /\ lkPc = "done" => lkResp = HashRecord(lkKey.node[1])

C18_Witness ==
    /\ lkKey = [node |-> <<1>>, bookmark |-> <<1>>]
    /\ lkExists = {1, 2}
    /\ lkBookmarks[1] = 2
    /\ lkPc = "done"
    /\ lkResp = HashRecord(1)

NoExistingHash == lkKey.node = <<>> \/ lkKey.node[1] \notin lkExists

\* The record of the bookmark b: where it points, or that it is not found.
BookmarkAnswer(b) ==
    IF lkBookmarks[b] = 0 THEN NotFoundRecord(b) ELSE HashRecord(lkBookmarks[b])

\* C20 as claimed: every key that is not the hash of an existing changeset
\* is answered from the bookmark of that name: '1 <hex>' when the bookmark
\* exists, '0 <name> not found' otherwise.
C20_Claimed ==
    lkPc = "done" /\ NoExistingHash =>
        IF KeyIsBookmarkName
        THEN lkResp = BookmarkAnswer(lkKey.bookmark[1])
        ELSE lkResp[1] = "0" /\ lkResp[3].fmt = "not found"

\* C20: a key that is not the hash of an existing changeset and parses as a
\* bookmark name is answered from the bookmark of that name, '1 <hex>' when
\* it exists and '0 <name> not found' when it does not, after one bookmark
\* read; a key that does not parse as a bookmark name is answered
\* '0 invalid input'.  Each of these is a response, not a command error.
C20_BookmarkFallback ==
    lkPc = "done" /\ NoExistingHash =>
        IF KeyIsBookmarkName
        THEN /\ lkResp = BookmarkAnswer(lkKey.bookmark[1])
             /\ lkReads[Len(lkReads)] = "get_bookmark"
        ELSE lkResp = InvalidInputRecord /\ lkReads = <<>>

C20_Witness ==
    /\ lkPc = "done"
    /\ lkKey = [node |-> <<2>>, bookmark |-> <<1>>]
    /\ lkExists = {1}
    /\ lkBookmarks[1] = 0
    /\ lkResp = NotFoundRecord(1)
    /\ lkReads = <<"changeset_exists", "get_bookmark">>

\* C21: a key that parses neither as a hash nor as a bookmark name is
\* answered, once the command has acted, by the record '0 invalid input':
\* the command succeeds and nothing is read from the repository.
C21_InvalidInputRecord ==
    (lkKey # <<>> /\ lkKey.node = <<>> /\ lkKey.bookmark = <<>>) =>
        /\ lkReads = <<>>
        /\ lkPc \in {"call", "done"}
        /\ lkPc = "done" => lkResp = InvalidInputRecord

C21_Witness ==
    /\ lkKey = [node |-> <<>>, bookmark |-> <<>>]
    /\ lkPc = "done"
    /\ lkResp = InvalidInputRecord
    /\ lkExists # {}
    /\ \E b \in LkNames : lkBookmarks[b] # 0

(***************************************************************************)
(* The session: one RepoClient and the commands invoked on it, one after   *)
(* the other.  A handler runs up to the point where it returns its future  *)
(* or stream (the scuba_logger call and what the handler builds at once);  *)
(* the future or stream then resolves, and the closure given to timed()    *)
(* logs the second record.  lkExists and lkBookmarks are the changesets    *)
(* and the bookmarks of the repository; a bookmark points to a changeset   *)
(* that exists.  Capability strings are sequences of tokens: names, and    *)
(* the characters "=", ",", ":" and "\n".                                  *)
(***************************************************************************)
\* The longest session and the longest list of nodes of a known explored.
MaxCommands == 2

MaxNodes == 2

RECURSIVE join(_, _)
join(s, sep) ==
    IF Len(s) = 0 THEN <<>>
    ELSE IF Len(s) = 1 THEN s[1]
    ELSE s[1] \o <<sep>> \o join(Tail(s), sep)

wireprotocaps ==
    << <<"lookup">>,
       <<"known">>,
       <<"getbundle">>,
       <<"unbundle", "=", "HG10GZ", ",", "HG10BZ", ",", "HG10UN">>,
       <<"gettreepack">>,
       <<"remotefilelog">>,
       <<"pushkey">>,
       <<"stream-preferred">>,
       <<"stream_option">>,
       <<"streamreqs", "=", "generaldelta", ",", "lz4revlog", ",", "revlogv1">> >>

capsWithListkeys ==
    << [key |-> <<"HG20">>, value |-> <<>>],
       [key |-> <<"listkeys">>, value |-> <<>>],
       [key |-> <<"changegroup">>, value |-> << <<"02">> >>],
       [key |-> <<"pushkey">>, value |-> <<>>] >>

\* let caps = vec![..] of bundle2caps
caps ==
    << [key |-> <<"HG20">>, value |-> <<>>],
       [key |-> <<"changegroup">>, value |-> << <<"02">> >>],
       [key |-> <<"b2x", ":", "infinitepush">>, value |-> <<>>],
       [key |-> <<"b2x", ":", "infinitepushscratchbookmarks">>, value |-> <<>>],
       [key |-> <<"pushkey">>, value |-> <<>>],
       [key |-> <<"treemanifestserver">>, value |-> << <<"True">> >>],
       [key |-> <<"b2x", ":", "rebase">>, value |-> <<>>],
       [key |-> <<"b2x", ":", "rebasepackpart">>, value |-> <<>>] >>

\* percent_encode: every character but letters, digits and a few marks is
\* replaced by "%" and its code.
percent_encode(t) ==
    [i \in 1..Len(t) |->
        CASE t[i] = "\n" -> "%0A"
          [] t[i] = "=" -> "%3D"
          [] t[i] = "," -> "%2C"
          [] t[i] = ":" -> "%3A"
          [] OTHER -> t[i]]

bundle2caps ==
    LET encodedcaps ==
            [i \in 1..Len(caps) |->
                IF Len(caps[i].value) > 0
                THEN join(<<caps[i].key, join(caps[i].value, ",")>>, "=")
                ELSE caps[i].key]
    IN  percent_encode(join(encodedcaps, "\n"))

\* res of hello: the capabilities, with the bundle2 entry pushed last
hello ==
    [capabilities |-> Append(wireprotocaps, <<"bundle2", "=">> \o bundle2caps)]

\* let mut scuba_logger = self.ctxt.scuba().clone(): what the sample of the
\* context holds once the clone has been given the fields of a command.
ctxt_shared(builder) == builder

ctxt_after(builder) == session.scuba

\* scuba_logger(op, args): the sample builder of one invocation
scuba_logger(op, args) ==
    session.scuba \cup {<<"command", op>>}
        \cup (IF args # <<>> THEN {<<"command_args", args[1]>>} ELSE {})

\* format!("rootdir: {}, mfnodes: {}, basemfnodes: {}, directories: {}", ..)
GettreepackArgsText == "rootdir: , mfnodes: , basemfnodes: , directories: "

\* if namespace == "bookmarks"
listkeys_any(namespace) == TRUE

listkeys_supported(namespace) == namespace = "bookmarks"

\* The bookmarks as get_bookmarks yields them: the name, and the text of the
\* hash of the changeset.
BookmarkItems ==
    {<<[fmt |-> "name", of |-> b], ToHex(lkBookmarks[b])>> :
        b \in {x \in LkNames : lkBookmarks[x] # 0}}

create_bundle_listkeys_first(listkeys) ==
    (IF \E i \in 1..Len(listkeys) : listkeys[i] = "bookmarks"
     THEN <<[part |-> "listkeys", namespace |-> "bookmarks",
             items |-> BookmarkItems]>>
     ELSE <<>>)
    \o <<[part |-> "changegroup", namespace |-> "", items |-> {}]>>

\* create_bundle: bundle2_parts when the part builders succeed
create_bundle(listkeys) ==
    <<[part |-> "changegroup", namespace |-> "", items |-> {}]>>
    \o (IF \E i \in 1..Len(listkeys) : listkeys[i] = "bookmarks"
        THEN <<[part |-> "listkeys", namespace |-> "bookmarks",
                items |-> BookmarkItems]>>
        ELSE <<>>)

\* What blobrepo.changeset_exists answers for a node of known.
KnownAnswer(node) == node \in lkExists

join_all_unordered(checks) ==
    [k \in 1..Len(checks) |->
        LET i == CHOOSE x \in 1..Len(checks) : checks[x].at = k
        IN  checks[i].st = "true"]

\* future::join_all: the values of the futures, each in the slot of its
\* future
join_all(checks) == [i \in 1..Len(checks) |-> checks[i].st = "true"]

\* The commands that take no argument here, the node lists of known, the
\* listkeys flags of getbundle and the namespaces of listkeys.
PlainOps == {"hello", "heads", "lookup", "between", "unbundle", "gettreepack"}

KnNodes == UNION {[1..k -> LkChangesets] : k \in 0..MaxNodes}

ListkeysFlags ==
    {<<>>, <<"bookmarks">>, <<"phases">>, <<"phases", "bookmarks">>,
     <<"bookmarks", "bookmarks">>}

Namespaces == {"bookmarks", "phases"}

NoCommand ==
    [op |-> "none", args |-> <<>>, scuba |-> {}, pc |-> "ok", checks |-> <<>>,
     visited |-> {}, reads |-> {}, built |-> TRUE, res |-> <<>>]

InitSession ==
    /\ BetweenIdle
    /\ GetfilesIdle
    /\ GettreepackIdle
    /\ WalkIdle
    /\ PrunerIdle
    /\ GenerationIdle
    /\ dropped = FALSE
    /\ LateIdle
    /\ lkKey = <<>>
    /\ lkPc = "done"
    /\ lkResp = <<>>
    /\ lkReads = <<>>
    /\ lkExists \in SUBSET LkChangesets
    /\ lkBookmarks \in [LkNames -> {0} \cup lkExists]
    /\ session = [repo |-> "blobrepo", scuba |-> {<<"session_uuid", "uuid">>}]
    /\ cmd = NoCommand
    /\ records = <<>>
    /\ ninv = 0

\* The handler of op up to the return of its future or stream.  `built` is
\* whether the part builders of create_bundle succeed.
Called(op, args, built) ==
    [op |-> op,
     args |-> args,
     scuba |->
        IF op = "listkeys" /\ ~listkeys_supported(args[1]) THEN {}
        ELSE scuba_logger(op, IF op = "gettreepack"
                              THEN <<GettreepackArgsText>> ELSE <<>>),
     pc |-> "running",
     checks |->
        IF op = "known"
        THEN [i \in 1..Len(args) |-> [st |-> "pending", at |-> 0]]
        ELSE <<>>,
     visited |-> {},
     reads |->
        CASE op = "hello" -> {}
          [] op = "known" -> IF Len(args) > 0 THEN {"changeset_exists"} ELSE {}
          [] op = "listkeys" ->
                IF listkeys_supported(args[1]) THEN {"get_bookmarks"} ELSE {}
          [] OTHER -> {"repository"},
     built |-> built,
     res |->
        CASE op = "hello" -> hello
          [] op = "getbundle" /\ built -> create_bundle(args)
          [] op = "listkeys" -> {}
          [] OTHER -> <<>>]

\* A command is invoked on the session once the previous one is over.
Invoke(op, args, built) ==
    /\ cmd.pc # "running"
    /\ ninv < MaxCommands
    /\ LET c == Called(op, args, built)
       IN  /\ cmd' = c
           /\ records' =
                IF c.scuba # {}
                THEN Append(records, [inv |-> ninv + 1,
                                      msg |-> "Start processing",
                                      fields |-> c.scuba])
                ELSE records
           /\ session' =
                IF c.scuba # {}
                THEN [session EXCEPT !.scuba = ctxt_after(c.scuba)]
                ELSE session
    /\ ninv' = ninv + 1

\* known: the existence check of node i resolves, in any order.
KnCheck(i, ok) ==
    /\ cmd.op = "known"
    /\ cmd.pc = "running"
    /\ i \in 1..Len(cmd.checks)
    /\ cmd.checks[i].st = "pending"
    /\ LET done == Cardinality({k \in 1..Len(cmd.checks) :
                                   cmd.checks[k].st # "pending"})
           st == IF ~ok THEN "err"
                 ELSE IF KnownAnswer(cmd.args[i]) THEN "true" ELSE "false"
       IN  cmd' = [cmd EXCEPT !.checks[i] = [st |-> st, at |-> done + 1]]
    /\ UNCHANGED <<session, records, ninv>>

\* gettreepack: a walk records a hash in the VisitedPruner of the request.
GtpVisit(h) ==
    /\ cmd.op = "gettreepack"
    /\ cmd.pc = "running"
    /\ h \notin cmd.visited
    /\ cmd' = [cmd EXCEPT !.visited = @ \cup {h}]
    /\ UNCHANGED <<session, records, ninv>>

\* Whether the future or stream of the command can resolve with a value,
\* and whether it can resolve with an error.
CanSucceed ==
    CASE cmd.op = "known" ->
            \A i \in 1..Len(cmd.checks) : cmd.checks[i].st \in {"true", "false"}
      [] cmd.op = "getbundle" -> cmd.built
      [] OTHER -> TRUE

CanFail ==
    CASE cmd.op = "hello" -> FALSE
      [] cmd.op = "known" ->
            \E i \in 1..Len(cmd.checks) : cmd.checks[i].st = "err"
      [] cmd.op = "listkeys" -> listkeys_supported(cmd.args[1])
      [] OTHER -> TRUE

\* The value the command resolves to.
Resolved ==
    CASE cmd.op = "known" -> join_all(cmd.checks)
      [] cmd.op = "listkeys" ->
            IF listkeys_supported(cmd.args[1]) THEN BookmarkItems ELSE {}
      [] OTHER -> cmd.res

\* The future or stream resolves; the closure of timed() logs the record.
Complete(ok) ==
    /\ cmd.op # "none"
    /\ cmd.pc = "running"
    /\ IF ok THEN CanSucceed ELSE CanFail
    /\ cmd' = [cmd EXCEPT !.pc = IF ok THEN "ok" ELSE "err",
                          !.res = IF ok THEN Resolved ELSE @]
    /\ records' =
          IF cmd.scuba # {}
          THEN Append(records, [inv |-> ninv,
                                msg |-> "Command processed",
                                fields |-> cmd.scuba \cup {<<"stats", "time">>}])
          ELSE records
    /\ UNCHANGED <<session, ninv>>

NextSession ==
    \/ \E op \in PlainOps : Invoke(op, <<>>, TRUE) /\ UNCHANGED exceptSession
    \/ \E nodes \in KnNodes :
          Invoke("known", nodes, TRUE) /\ UNCHANGED exceptSession
    \/ \E flags \in ListkeysFlags, built \in BOOLEAN :
          Invoke("getbundle", flags, built) /\ UNCHANGED exceptSession
    \/ \E ns \in Namespaces :
          Invoke("listkeys", <<ns>>, TRUE) /\ UNCHANGED exceptSession
    \/ \E i \in 1..MaxNodes, ok \in BOOLEAN :
          KnCheck(i, ok) /\ UNCHANGED exceptSession
    \/ \E h \in LkChangesets : GtpVisit(h) /\ UNCHANGED exceptSession
    \/ \E ok \in BOOLEAN : Complete(ok) /\ UNCHANGED exceptSession

SpecSession == InitSession /\ [][NextSession]_vars

(***************************************************************************)
(* The session: what the commands are to answer and to log.                *)
(***************************************************************************)
\* C22: a known that returns, returns one boolean per input node, in the
\* order of the input: element i is true exactly when the changeset of
\* node i exists, in whatever order the existence checks completed and
\* also when a node occurs twice.
C22_KnownInInputOrder ==
    (cmd.op = "known" /\ cmd.pc = "ok") =>
        /\ Len(cmd.res) = Len(cmd.args)
        /\ \A i \in 1..Len(cmd.args) : cmd.res[i] = (cmd.args[i] \in lkExists)

\* The second check completed first, and the two results differ.
C22_Witness ==
    /\ cmd.op = "known"
    /\ cmd.pc = "ok"
    /\ Len(cmd.args) = 2
    /\ cmd.checks[2].at < cmd.checks[1].at
    /\ cmd.res = <<FALSE, TRUE>>
    /\ ninv = 2

\* C23: the capabilities of hello hold exactly one entry 'bundle2=...', and
\* no entry, the bundle2 entry included, holds the name listkeys; hello
\* never fails, at whatever point of the session it is invoked.
C23_NoListkeysCapability ==
    cmd.op = "hello" =>
        LET capl == cmd.res.capabilities
        IN  /\ cmd.pc # "err"
            /\ Cardinality({i \in 1..Len(capl) :
                    Len(capl[i]) >= 2 /\ capl[i][1] = "bundle2"
                                     /\ capl[i][2] = "="}) = 1
            /\ \A i \in 1..Len(capl) :
                  \A k \in 1..Len(capl[i]) : capl[i][k] # "listkeys"

\* hello answered after a listkeys command, with the encoded bundle2 entry.
C23_Witness ==
    /\ cmd.op = "hello"
    /\ cmd.pc = "ok"
    /\ ninv = 2
    /\ \E r \in SeqRange(records) : <<"command", "listkeys">> \in r.fields
    /\ \E i \in 1..Len(cmd.res.capabilities) :
          LET e == cmd.res.capabilities[i]
          IN  /\ e[1] = "bundle2"
              /\ {"%0A", "%3D", "%3A", "pushkey"} \subseteq SeqRange(e)
              /\ "\n" \notin SeqRange(e)

Bookmarked == {b \in LkNames : lkBookmarks[b] # 0}

ExpectedBookmarks ==
    {<<[fmt |-> "name", of |-> b], [fmt |-> "hex", of |-> lkBookmarks[b]]>> :
        b \in Bookmarked}

\* C24: listkeys of the namespace bookmarks, when it returns, returns one
\* key per bookmark of the repository with the hex text of its changeset;
\* listkeys of another namespace reads nothing, never fails and returns
\* the empty map.
C24_ListkeysBookmarks ==
    cmd.op = "listkeys" =>
        IF cmd.args[1] = "bookmarks"
        THEN cmd.pc = "ok" =>
                /\ cmd.res = ExpectedBookmarks
                /\ Cardinality({kv[1] : kv \in cmd.res}) = Cardinality(Bookmarked)
        ELSE /\ cmd.pc # "err"
             /\ cmd.reads = {}
             /\ cmd.res = {}

\* Two bookmarks on the same changeset: two keys.
C24_Witness ==
    /\ cmd.op = "listkeys"
    /\ cmd.args = <<"bookmarks">>
    /\ cmd.pc = "ok"
    /\ lkBookmarks[1] = 1
    /\ lkBookmarks[2] = 1
    /\ Cardinality(cmd.res) = 2

\* C25: a getbundle that succeeds has the changegroup part first; it has a
\* second part exactly when its listkeys flags hold bookmarks, and that
\* part lists every bookmark with the hex text of its changeset; there is
\* no other part, and no part when a part builder fails.
C25_ChangegroupThenBookmarks ==
    cmd.op = "getbundle" =>
        /\ ~cmd.built => cmd.pc # "ok" /\ cmd.res = <<>>
        /\ cmd.pc = "ok" =>
              LET wanted == "bookmarks" \in SeqRange(cmd.args)
              IN  /\ Len(cmd.res) = IF wanted THEN 2 ELSE 1
                  /\ cmd.res[1].part = "changegroup"
                  /\ wanted => /\ cmd.res[2].part = "listkeys"
                               /\ cmd.res[2].namespace = "bookmarks"
                               /\ cmd.res[2].items = ExpectedBookmarks

C25_Witness ==
    /\ cmd.op = "getbundle"
    /\ cmd.pc = "ok"
    /\ cmd.args = <<"phases", "bookmarks">>
    /\ Len(cmd.res) = 2
    /\ Cardinality(cmd.res[2].items) = 2

\* The records of the command invoked last.
Mine == SelectSeq(records, LAMBDA r : r.inv = ninv)

\* C26 as claimed: every invocation of a command has logged a 'Start
\* processing' record tagged with the command and, once the command is
\* over, exactly one 'Command processed' record with the duration after it.
C26_Claimed ==
    cmd.op # "none" =>
        /\ Len(Mine) = IF cmd.pc = "running" THEN 1 ELSE 2
        /\ Mine[1].msg = "Start processing"
        /\ <<"command", cmd.op>> \in Mine[1].fields
        /\ cmd.pc # "running" =>
              /\ Mine[2].msg = "Command processed"
              /\ <<"command", cmd.op>> \in Mine[2].fields
              /\ <<"stats", "time">> \in Mine[2].fields

\* The divergence: a listkeys of an unsupported namespace that is over and
\* has logged nothing.
C26_NoRecord ==
    /\ cmd.op = "listkeys"
    /\ cmd.args = <<"phases">>
    /\ cmd.pc = "ok"
    /\ Mine = <<>>

\* C28: the RepoClient is the same after every command; the records of an
\* invocation hold the fields of the context, its own command and
\* command_args and the duration, and nothing of another invocation; a
\* gettreepack starts with an empty visited set; and what known, listkeys
\* and hello return is a function of the arguments and the repository.
C28_SessionUnchanged ==
    /\ [](/\ session = [repo |-> "blobrepo",
                        scuba |-> {<<"session_uuid", "uuid">>}]
          /\ \A k \in 1..Len(Mine) :
                Mine[k].fields \subseteq
                    {<<"session_uuid", "uuid">>, <<"command", cmd.op>>,
                     <<"stats", "time">>}
                    \cup {kv \in {<<"command_args", GettreepackArgsText>>} :
                            cmd.op = "gettreepack"}
          /\ (cmd.op = "known" /\ cmd.pc = "ok") =>
                cmd.res = [i \in 1..Len(cmd.args) |-> cmd.args[i] \in lkExists]
          /\ (cmd.op = "listkeys" /\ cmd.pc = "ok" /\ cmd.args = <<"bookmarks">>) =>
                cmd.res = ExpectedBookmarks
          /\ (cmd.op = "hello" /\ cmd.pc = "ok") =>
                Len(cmd.res.capabilities) = Len(wireprotocaps) + 1)
    /\ [][ninv' # ninv => cmd'.visited = {} /\ session' = session]_vars

\* hello after a gettreepack: the records of hello hold no command_args.
C28_Witness ==
    /\ ninv = 2
    /\ cmd.op = "hello"
    /\ cmd.pc = "ok"
    /\ Len(records) = 4
    /\ <<"command_args", GettreepackArgsText>> \in records[2].fields
    /\ \A kv \in records[4].fields : kv[1] # "command_args"

\* C30 as claimed: a completed request for several targets with a depth
\* above 1 holds exactly the hashes of the single-target responses for its
\* targets, with the same base, rootdir and depth.
C30_Claimed ==
    (gtpPc = "done" /\ Len(gtpArgs.mfnodes) > 1 /\ fetchdepth > 1) =>
        OutHashes = UNION {RefTreepack(t, basemfnode, fetchdepth) : t \in Targets}

\* The divergence: two different targets, depth 3, and a completed response
\* without the directory TU, which the single-target response for MfT1
\* holds.
C30_Lost ==
    /\ gtpPc = "done"
    /\ gtpArgs.mfnodes = <<MfT1, MfT2>>
    /\ gtpArgs.basemfnodes = <<MfBase>>
    /\ gtpArgs.depth = <<3>>
    /\ TU \in RefTreepack(MfT1, MfBase, 3)
    /\ TU \notin OutHashes

(***************************************************************************)
(* Cancellation: the consumer drops the future of a between or the stream  *)
(* of a getfiles.  The futures and streams of a command are polled by      *)
(* their consumer only; what is dropped is never polled again, and the     *)
(* fetches it holds are dropped with it.                                   *)
(***************************************************************************)
PollingAfterDrop == TRUE

\* Whether the consumer still polls the output of the command.
Polling == ~dropped

InitCancel == InitBetween \/ InitGetfiles

\* The consumer drops the output of the command that is running.
Drop ==
    /\ ~dropped
    /\ bPc = "running" \/ gfPc = "streaming"
    /\ dropped' = TRUE
    /\ UNCHANGED <<betweenVars, getfilesVars, gtpVars, walkVars, prArgs,
                   lookupVars, sessionVars, generationVars, lateVars>>

NextCancel ==
    \/ Polling /\ NextBetween
    \/ Polling /\ NextGetfiles
    \/ Drop

SpecCancel == InitCancel /\ [][NextCancel]_vars

GenBits == 6

\* u64::MAX
MAX == 2 ^ GenBits - 1

\* Generation::max_gen()
max_gen == MAX

wrapping_sub(a, b) == <<(a - b + 2 ^ GenBits) % (2 ^ GenBits)>>

\* u64::checked_sub: None when the subtraction overflows
checked_sub(a, b) == IF a - b < 0 THEN <<>> ELSE <<a - b>>

difference_from(self, other) == checked_sub(self, other)

InitGeneration ==
    /\ BetweenIdle
    /\ GetfilesIdle
    /\ GettreepackIdle
    /\ WalkIdle
    /\ PrunerIdle
    /\ LookupIdle
    /\ SessionIdle
    /\ dropped = FALSE
    /\ LateIdle
    /\ self_gen \in 0..max_gen
    /\ other_gen \in 0..max_gen
    /\ difference = <<"uncalled">>

DifferenceFrom ==
    /\ difference = <<"uncalled">>
    /\ difference' = <<"called", difference_from(self_gen, other_gen)>>
    /\ UNCHANGED <<self_gen, other_gen>>

NextGeneration == DifferenceFrom /\ UNCHANGED exceptGeneration

SpecGeneration == InitGeneration /\ [][NextGeneration]_vars

\* C29: difference_from returns None exactly when self is smaller than
\* other, and Some(self - other), a number of the same width, otherwise.
C29_DifferenceFrom ==
    difference[1] = "called" =>
        /\ (difference[2] = <<>>) <=> (self_gen < other_gen)
        /\ self_gen >= other_gen =>
              /\ difference[2] = <<self_gen - other_gen>>
              /\ difference[2][1] \in 0..(2 ^ GenBits - 1)

\* max_gen() against the smallest generation number: the largest difference.
C29_Witness ==
    /\ difference = <<"called", <<2 ^ GenBits - 1>>>>
    /\ self_gen = 2 ^ GenBits - 1
    /\ other_gen = 0

(***************************************************************************)
(* gettreepack: paths, default depth and base manifests.                   *)
(***************************************************************************)
SingleTargetDone == gtpPc = "done" /\ Len(gtpArgs.mfnodes) = 1

\* The directories of the one target that differ from the base, within the
\* depth bound, each with its path (the walk under default_pruner).
ChangedDirs ==
    IF fetchdepth <= 1 THEN {}
    ELSE RefWalk(default_pruner, gtpArgs.mfnodes[1], basemfnode, fetchdepth)

\* C31 as claimed: a completed single-target request has, for every changed
\* directory within the depth, the record that carries that directory's
\* path; the filter by hash drops none of them.
C31_Claimed ==
    SingleTargetDone =>
        \A c \in ChangedDirs : TreepackPartInput(c) \in OutRecords

\* What the filter does keep: one record for every hash of a changed
\* directory within the depth, carrying the path of a changed directory
\* with that hash.
OneRecordPerHash ==
    SingleTargetDone =>
        /\ \A c \in ChangedDirs : \E r \in OutRecords : r.node = c.hash
        /\ \A r \in OutRecords :
              \/ r = [node |-> gtpArgs.mfnodes[1], name |-> 0,
                      basepath |-> gtpArgs.rootdir]
              \/ \E c \in ChangedDirs : r = TreepackPartInput(c)
        /\ \A r1, r2 \in OutRecords : r1.node = r2.node => r1 = r2
        /\ \A r \in OutRecords : CopiesIn(r, gtpOut) = 1

C31_Witness ==
    /\ SingleTargetDone
    /\ \E c1, c2 \in ChangedDirs :
          /\ c1.hash = c2.hash
          /\ <<c1.dir, c1.name>> # <<c2.dir, c2.name>>
          /\ TreepackPartInput(c1) \in OutRecords
          /\ TreepackPartInput(c2) \notin OutRecords

\* C32 as claimed: a request that gives no depth is walked to depth 65536.
C32_Claimed == gtpArgs.depth = <<>> => fetchdepth = 65536

C32_Witness ==
    /\ gtpPc = "done"
    /\ gtpArgs.depth = <<>>
    /\ fetchdepth = 131072

\* C33: of the base manifests of a request only the first is compared with
\* (the null manifest when there is none): a completed single-target
\* request holds the hashes that differ from that one base, a completed
\* multi-target request holds its targets and nothing that does not differ
\* from that base; and a request is never refused for its bases, whatever
\* their number.
C33_FirstBaseOnly ==
    LET first == IF gtpArgs.basemfnodes = <<>> THEN NULL_HASH
                 ELSE Head(gtpArgs.basemfnodes)
    IN  /\ SingleTargetDone =>
              OutHashes = RefTreepack(gtpArgs.mfnodes[1], first, fetchdepth)
        /\ gtpPc = "done" =>
              /\ Targets \subseteq OutHashes
              /\ OutHashes \subseteq
                    UNION {RefTreepack(t, first, fetchdepth) : t \in Targets}
        /\ gtpPc = "failed" /\ ~gtpLookupFailed =>
              \/ gtpArgs.directories # <<>>
              \/ ~MPathValid(gtpArgs.rootdir)

C33_Witness ==
    /\ SingleTargetDone
    /\ gtpArgs.basemfnodes = <<MfBase, MfT1>>
    /\ gtpArgs.mfnodes = <<MfT1>>
    /\ OutHashes # {MfT1}

(***************************************************************************)
(* between: the fetches of one ParentStream.                               *)
(***************************************************************************)
\* C34: a walk issues a fetch only when none is outstanding, and then of
\* its cursor, which it has not fetched before; while a fetch is pending
\* neither the cursor nor the fetches change; and the cursor changes only
\* when a completed fetch is taken, to the first parent of the changeset or
\* to the null hash.
C34_OneFetchOutstanding ==
    [][\A j \in DOMAIN wait_cs :
         /\ fetched'[j] # fetched[j] =>
               /\ wait_cs[j] = "None"
               /\ wait_cs'[j] = "Pending"
               /\ fetched'[j] = Append(fetched[j], n[j])
               /\ n[j] \notin SeqRange(fetched[j])
         /\ wait_cs[j] = "Pending" =>
               /\ fetched'[j] = fetched[j]
               /\ n'[j] = n[j]
               /\ wait_cs'[j] \in {"Pending", "ReadyOk", "ReadyErr"}
         /\ n'[j] # n[j] =>
               /\ wait_cs[j] = "ReadyOk"
               /\ wait_cs'[j] = "None"
               /\ n'[j] = P1OrNull(n[j])]_vars

C34_Witness ==
    \E j \in DOMAIN wait_cs :
        /\ Len(fetched[j]) = 2
        /\ wait_cs[j] = "Pending"
        /\ n[j] = fetched[j][2]
        /\ n[j] = P1OrNull(fetched[j][1])
        /\ n[j] # NULL_HASH

(***************************************************************************)
(* lookup: repository errors.                                              *)
(***************************************************************************)
\* C35: a lookup that has failed has no response record and stays failed,
\* and the step that fails it reads nothing more of the repository: after a
\* failed existence check the bookmark is not read.
C35_LookupErrorsFail ==
    /\ [](lkPc = "failed" => lkResp = <<>>)
    /\ [][lkPc = "failed" => lkPc' = "failed" /\ lkResp' = lkResp]_vars
    /\ [][lkPc # "failed" /\ lkPc' = "failed" =>
            /\ lkPc \in {"exists", "bookmark"}
            /\ lkReads' = lkReads]_vars

C35_Witness ==
    /\ lkPc = "failed"
    /\ lkReads = <<"changeset_exists">>
    /\ lkKey.node[1] \notin lkExists
    /\ lkBookmarks[lkKey.bookmark[1]] # 0

(***************************************************************************)
(* stream_out_shallow: the response header, then the two changelog files,  *)
(* each a header and its chunks through .buffered(100).                    *)
(*                                                                         *)
(* Bytes are sequences of tokens; "NUL" is the zero byte.                  *)
(***************************************************************************)
\* No wire-protocol command runs and difference_from is not called.
EarlyIdle ==
    /\ SessionIdle
    /\ dropped = FALSE
    /\ GenerationIdle
    /\ BetweenIdle
    /\ GetfilesIdle
    /\ GettreepackIdle
    /\ WalkIdle
    /\ PrunerIdle
    /\ LookupIdle

\* The most chunks a file of the stored changelog has.
MaxChunks == 2

stream_out_buffer_size == 100

\* The chunk fetches of one file, in their stored order.
ChunkFetches(file, count) == [k \in 1..count |-> <<file, ToString(k)>>]

\* What fetch_changelog may return.
StoredChangelogs ==
    {[index_size |-> 64 * i, data_size |-> 100 * d,
      index_blobs |-> ChunkFetches("index", i),
      data_blobs |-> ChunkFetches("data", d)] :
        i \in 0..MaxChunks, d \in 0..MaxChunks}

RevlogStreamingChunks_new ==
    [index_size |-> 0, data_size |-> 0, index_blobs |-> <<>>,
     data_blobs |-> <<>>]

\* match self.repo.streaming_clone()
changelog_chunks ==
    IF soConfigured THEN soStored ELSE RevlogStreamingChunks_new

file_count == 2

response_header ==
    LET total_size == changelog_chunks.index_size + changelog_chunks.data_size
    IN  << <<"0", "\n">>,
           <<ToString(file_count), " ", ToString(total_size), "\n">> >>

\* let header = format!("{}\0{}\n", name, size)
file_header(name, size) == <<name, "NUL", ToString(size), "\n">>

InitStreamOut ==
    /\ EarlyIdle
    /\ FilenodesIdle
    /\ UploadIdle
    /\ BookmarksIdle
    /\ HookIdle
    /\ soConfigured \in BOOLEAN
    /\ soStored \in StoredChangelogs
    /\ soPc = "call"
    /\ soPulled = 0
    /\ soStatus = <<>>
    /\ soNext = 1
    /\ soOut = <<>>

\* The changelog future resolves: at once without a configuration, with the
\* chunks or an error of the fetcher with one.
SoChangelog(ok) ==
    /\ soPc = "call"
    /\ ok \/ soConfigured
    /\ soPc' = IF ok THEN "response" ELSE "failed"
    /\ UNCHANGED <<soConfigured, soStored, soPulled, soStatus, soNext, soOut>>

\* stream::iter_ok(response_header) yields its next item.
SoResponse ==
    /\ soPc = "response"
    /\ soOut' = Append(soOut, response_header[Len(soOut) + 1])
    /\ soPc' = IF Len(soOut) + 1 = Len(response_header)
               THEN "index_header" ELSE "response"
    /\ UNCHANGED <<soConfigured, soStored, soPulled, soStatus, soNext>>

\* stream::once(Ok(header)) of build_file_stream yields.
SoFileHeader ==
    /\ soPc \in {"index_header", "data_header"}
    /\ IF soPc = "index_header"
       THEN /\ soOut' = Append(soOut, file_header("00changelog.i",
                                          changelog_chunks.index_size))
            /\ soPc' = "index"
       ELSE /\ soOut' = Append(soOut, file_header("00changelog.d",
                                          changelog_chunks.data_size))
            /\ soPc' = "data"
    /\ UNCHANGED <<soConfigured, soStored, soPulled, soStatus, soNext>>

\* The data of the file being streamed.
SoData ==
    IF soPc = "index" THEN changelog_chunks.index_blobs
    ELSE changelog_chunks.data_blobs

SoQueueLen ==
    Cardinality({k \in 1..soPulled : soStatus[k] \in {"running", "ok", "err"}})

\* The fill loop of Buffered::poll has run: the queue is polled.
SoFilled ==
    soPulled = Len(SoData) \/ SoQueueLen = stream_out_buffer_size

SoPull ==
    /\ soPc \in {"index", "data"}
    /\ soPulled < Len(SoData)
    /\ SoQueueLen < stream_out_buffer_size
    /\ soPulled' = soPulled + 1
    /\ soStatus' = Append(soStatus, "running")
    /\ UNCHANGED <<soConfigured, soStored, soPc, soNext, soOut>>

\* The fetch of chunk k completes, with the bytes or with an error.
SoChunkDone(k, ok) ==
    /\ soPc \in {"index", "data"}
    /\ SoFilled
    /\ soStatus[k] = "running"
    /\ soStatus' = [soStatus EXCEPT ![k] = IF ok THEN "ok" ELSE "err"]
    /\ UNCHANGED <<soConfigured, soStored, soPc, soPulled, soNext, soOut>>

SoEmittableAny(k) == soStatus[k] = "ok"

SoEmittable(k) == k = soNext /\ soStatus[k] = "ok"

SoEmit(k) ==
    /\ soPc \in {"index", "data"}
    /\ SoFilled
    /\ SoEmittable(k)
    /\ ~\E e \in 1..soPulled : soStatus[e] = "err"
    /\ soOut' = Append(soOut, SoData[k])
    /\ soStatus' = [soStatus EXCEPT ![k] = "emitted"]
    /\ soNext' = soNext + 1
    /\ UNCHANGED <<soConfigured, soStored, soPc, soPulled>>

\* The queue meets a failed fetch: the response ends with its error.
SoEmitErr ==
    /\ soPc \in {"index", "data"}
    /\ \E e \in 1..soPulled : soStatus[e] = "err"
    /\ soPc' = "failed"
    /\ UNCHANGED <<soConfigured, soStored, soPulled, soStatus, soNext, soOut>>

\* The buffered stream of the file is done: Chain moves on.
SoFileEnd ==
    /\ soPc \in {"index", "data"}
    /\ soPulled = Len(SoData)
    /\ SoQueueLen = 0
    /\ soPc' = IF soPc = "index" THEN "data_header" ELSE "done"
    /\ soPulled' = 0
    /\ soStatus' = <<>>
    /\ soNext' = 1
    /\ UNCHANGED <<soConfigured, soStored, soOut>>

NextStreamOut ==
    \/ \E ok \in BOOLEAN : SoChangelog(ok) /\ UNCHANGED exceptStreamOut
    \/ SoResponse /\ UNCHANGED exceptStreamOut
    \/ SoFileHeader /\ UNCHANGED exceptStreamOut
    \/ SoPull /\ UNCHANGED exceptStreamOut
    \/ \E k \in 1..MaxChunks, ok \in BOOLEAN :
          k <= soPulled /\ SoChunkDone(k, ok) /\ UNCHANGED exceptStreamOut
    \/ \E k \in 1..MaxChunks :
          k <= soPulled /\ SoEmit(k) /\ UNCHANGED exceptStreamOut
    \/ SoEmitErr /\ UNCHANGED exceptStreamOut
    \/ SoFileEnd /\ UNCHANGED exceptStreamOut

SpecStreamOut == InitStreamOut /\ [][NextStreamOut]_vars

\* C36: the response is, in this order, '0\n', '2 <index_size + data_size>\n',
\* the header of 00changelog.i with the index size, the index chunks in
\* their stored order, the header of 00changelog.d with the data size and
\* the data chunks in their stored order: what has been sent is always a
\* prefix of that, a completed response is all of it, and without a
\* streaming-clone configuration it is the four lines with size 0.
C36_StreamOutOrder ==
    LET c == IF soConfigured THEN soStored
             ELSE [index_size |-> 0, data_size |-> 0, index_blobs |-> <<>>,
                   data_blobs |-> <<>>]
        expected ==
            << <<"0", "\n">>,
               <<"2", " ", ToString(c.index_size + c.data_size), "\n">>,
               <<"00changelog.i", "NUL", ToString(c.index_size), "\n">> >>
            \o [k \in 1..Len(c.index_blobs) |-> <<"index", ToString(k)>>]
            \o << <<"00changelog.d", "NUL", ToString(c.data_size), "\n">> >>
            \o [k \in 1..Len(c.data_blobs) |-> <<"data", ToString(k)>>]
    IN  /\ IsPrefix(soOut, expected)
        /\ soPc = "done" => soOut = expected
        /\ soPc = "done" /\ ~soConfigured =>
              soOut = << <<"0", "\n">>, <<"2", " ", "0", "\n">>,
                         <<"00changelog.i", "NUL", "0", "\n">>,
                         <<"00changelog.d", "NUL", "0", "\n">> >>

\* The second data chunk is there before the first, the index file is out.
C36_Witness ==
    /\ soConfigured
    /\ soPc = "data"
    /\ soStatus = <<"running", "ok">>
    /\ Len(soStored.index_blobs) = 2
    /\ Len(soOut) = 6
    /\ soOut[4] = <<"index", "1">>
    /\ soOut[6] = <<"00changelog.d", "NUL", "200", "\n">>

(***************************************************************************)
(* CachingFilenodes: get_filenode through an Asyncmemo cache whose filler  *)
(* asks the wrapped store.                                                 *)
(***************************************************************************)
MaxKeys == 2

MaxGets == 3

FnKeys == 1..MaxKeys

\* The FilenodeInfo values; 0 stands for no filenode.
FnInfos == {1, 2}

InitFilenodes ==
    /\ EarlyIdle
    /\ StreamOutIdle
    /\ UploadIdle
    /\ BookmarksIdle
    /\ HookIdle
    /\ fnStore \in [FnKeys -> {0} \cup FnInfos]
    /\ fnCache = [k \in FnKeys |-> <<>>]
    /\ fnResults = <<>>

\* self.filenodes.get_filenode of the wrapped store
StoreGet(k, fails) ==
    IF fails THEN [tag |-> "Err", info |-> 0]
    ELSE IF fnStore[k] = 0 THEN [tag |-> "None", info |-> 0]
    ELSE [tag |-> "Some", info |-> fnStore[k]]

\* A filler that hands absence to the cache as a value.
fill_absent_as_value(k, fails) ==
    LET res == StoreGet(k, fails)
    IN  IF res.tag = "Err" THEN [ok |-> FALSE, val |-> 0, err |-> "Some"]
        ELSE [ok |-> TRUE, val |-> res.info, err |-> "no"]

\* FilenodesFiller::fill: Ok(val), Err(Some(err)) or Err(None)
fill(k, fails) ==
    LET res == StoreGet(k, fails)
    IN  IF res.tag = "Err" THEN [ok |-> FALSE, val |-> 0, err |-> "Some"]
        ELSE IF res.tag = "Some"
        THEN [ok |-> TRUE, val |-> res.info, err |-> "no"]
        ELSE [ok |-> FALSE, val |-> 0, err |-> "None"]

\* Asyncmemo::get: the cached value, or what the filler resolves to
cache_get(k, fails) ==
    IF fnCache[k] # <<>>
    THEN [ok |-> TRUE, val |-> fnCache[k][1], err |-> "no"]
    ELSE fill(k, fails)

\* Asyncmemo keeps the value of a filler that resolved with Ok, and nothing
\* of one that resolved with Err.
cache_after(k, fails) ==
    IF fnCache[k] = <<>> /\ fill(k, fails).ok
    THEN [fnCache EXCEPT ![k] = <<fill(k, fails).val>>]
    ELSE fnCache

\* CachingFilenodes::get_filenode: the match on what the cache resolved to
get_filenode(k, fails) ==
    LET val == cache_get(k, fails)
    IN  IF val.ok THEN [tag |-> "Some", info |-> val.val]
        ELSE IF val.err = "Some" THEN [tag |-> "Err", info |-> 0]
        ELSE [tag |-> "None", info |-> 0]

GetFilenode(k, fails) ==
    /\ Len(fnResults) < MaxGets
    /\ fnResults' = Append(fnResults,
                           [key |-> k, hit |-> fnCache[k] # <<>>,
                            res |-> get_filenode(k, fails)])
    /\ fnCache' = cache_after(k, fails)
    /\ UNCHANGED fnStore

\* CachingFilenodes::add_filenodes hands the stream to the wrapped store,
\* which keeps the filenode it has for a key.
AddFilenodes(k, info) ==
    /\ fnStore[k] = 0
    /\ fnStore' = [fnStore EXCEPT ![k] = info]
    /\ UNCHANGED <<fnCache, fnResults>>

\* The cache drops an entry to stay within sizelimit.
FnEvict(k) ==
    /\ fnCache[k] # <<>>
    /\ fnCache' = [fnCache EXCEPT ![k] = <<>>]
    /\ UNCHANGED <<fnStore, fnResults>>

NextFilenodes ==
    \/ \E k \in FnKeys, fails \in BOOLEAN :
          GetFilenode(k, fails) /\ UNCHANGED exceptFilenodes
    \/ \E k \in FnKeys, info \in FnInfos :
          AddFilenodes(k, info) /\ UNCHANGED exceptFilenodes
    \/ \E k \in FnKeys : FnEvict(k) /\ UNCHANGED exceptFilenodes

SpecFilenodes == InitFilenodes /\ [][NextFilenodes]_vars

MaxRevs == 3

upload_buffer_size == 100

\* The revlogs of r changesets: at most two parents, parents come first.
Revlogs(r) ==
    {rl \in [1..r -> SUBSET (1..r)] :
        \A c \in 1..r : rl[c] \subseteq 1..(c - 1) /\ Cardinality(rl[c]) <= 2}

RECURSIVE Skip(_, _)
Skip(s, k) == IF k = 0 \/ s = <<>> THEN s ELSE Skip(Tail(s), k - 1)

Take(s, k) == IF k >= Len(s) THEN s ELSE SubSeq(s, 1, k)

\* The stream of changesets after the matches on changeset, skip and
\* commits_limit.
changesets ==
    LET all == IF upArgs.changeset # -1 THEN <<upArgs.changeset>>
               ELSE [c \in 1..Len(upRevlog) |-> c]
        skipped == IF upArgs.skip = -1 THEN all ELSE Skip(all, upArgs.skip)
    IN  IF upArgs.commits_limit = -1 THEN skipped
        ELSE Take(skipped, upArgs.commits_limit)

is_import_from_beggining == upArgs.changeset = -1 /\ upArgs.skip = -1

InitUpload ==
    /\ EarlyIdle
    /\ StreamOutIdle
    /\ FilenodesIdle
    /\ BookmarksIdle
    /\ HookIdle
    /\ \E r \in 1..MaxRevs :
          /\ upRevlog \in Revlogs(r)
          /\ upArgs \in [changeset : {-1, r}, skip : {-1, 0, 1},
                         commits_limit : {-1, 2}]
    /\ upPulled = 0
    /\ upStatus = <<>>
    /\ upNext = 1
    /\ upCreated = <<>>
    /\ parent_changeset_handles = {}
    /\ upPc = "running"

UpQueueLen ==
    Cardinality({k \in 1..upPulled : upStatus[k] \in {"running", "ok", "err"}})

\* The fill loop of Buffered::poll has run: the queue is polled.
UpFilled == upPulled = Len(changesets) \/ UpQueueLen = upload_buffer_size

\* The first map: parse_changeset of the next changeset of the stream.
UpPull ==
    /\ upPc = "running"
    /\ upPulled < Len(changesets)
    /\ UpQueueLen < upload_buffer_size
    /\ upPulled' = upPulled + 1
    /\ upStatus' = Append(upStatus, "running")
    /\ UNCHANGED <<upArgs, upRevlog, upNext, upCreated,
                   parent_changeset_handles, upPc>>

\* revlogcs.join3(rootmf, entries.collect()) of the k-th changeset resolves.
UpParsed(k, ok) ==
    /\ upPc = "running"
    /\ UpFilled
    /\ upStatus[k] = "running"
    /\ upStatus' = [upStatus EXCEPT ![k] = IF ok THEN "ok" ELSE "err"]
    /\ UNCHANGED <<upArgs, upRevlog, upPulled, upNext, upCreated,
                   parent_changeset_handles, upPc>>

UpEmittableAny(k) == upStatus[k] = "ok"

UpEmittable(k) == k = upNext /\ upStatus[k] = "ok"

\* maybe_handle.expect(..) of a parent without a handle
ParentNotFound(csid) ==
    /\ is_import_from_beggining
    /\ \E p \in upRevlog[csid] : p \notin parent_changeset_handles

\* Buffered yields the k-th parsed changeset and the second map creates it:
\* the handles of its parents are looked up, its own handle is registered.
UpCreate(k) ==
    /\ upPc = "running"
    /\ UpFilled
    /\ UpEmittable(k)
    /\ ~\E e \in 1..upPulled : upStatus[e] = "err"
    /\ IF ParentNotFound(changesets[k])
       THEN /\ upPc' = "panicked"
            /\ UNCHANGED <<upStatus, upNext, upCreated,
                           parent_changeset_handles>>
       ELSE /\ upCreated' = Append(upCreated, changesets[k])
            /\ parent_changeset_handles' =
                  parent_changeset_handles \cup {changesets[k]}
            /\ upStatus' = [upStatus EXCEPT ![k] = "emitted"]
            /\ upNext' = upNext + 1
            /\ UNCHANGED upPc
    /\ UNCHANGED <<upArgs, upRevlog, upPulled>>

\* A parse has failed: the stream yields its error and its consumer stops.
UpErr ==
    /\ upPc = "running"
    /\ \E e \in 1..upPulled : upStatus[e] = "err"
    /\ upPc' = "failed"
    /\ UNCHANGED <<upArgs, upRevlog, upPulled, upStatus, upNext, upCreated,
                   parent_changeset_handles>>

UpEnd ==
    /\ upPc = "running"
    /\ upPulled = Len(changesets)
    /\ UpQueueLen = 0
    /\ upPc' = "done"
    /\ UNCHANGED <<upArgs, upRevlog, upPulled, upStatus, upNext, upCreated,
                   parent_changeset_handles>>

NextUpload ==
    \/ UpPull /\ UNCHANGED exceptUpload
    \/ \E k \in 1..MaxRevs, ok \in BOOLEAN :
          k <= upPulled /\ UpParsed(k, ok) /\ UNCHANGED exceptUpload
    \/ \E k \in 1..MaxRevs :
          k <= upPulled /\ UpCreate(k) /\ UNCHANGED exceptUpload
    \/ UpErr /\ UNCHANGED exceptUpload
    \/ UpEnd /\ UNCHANGED exceptUpload

SpecUpload == InitUpload /\ [][NextUpload]_vars

\* C38: the changesets created are, in order, the first of those the
\* stream yields, and all of them when the upload is done; the handles
\* registered are those of the changesets created; and in an import from
\* the beginning every changeset is created after its parents and the
\* lookup of a parent's handle never panics.
C38_CreatedInRevlogOrder ==
    /\ IsPrefix(upCreated, changesets)
    /\ upPc = "done" => upCreated = changesets
    /\ parent_changeset_handles = SeqRange(upCreated)
    /\ upArgs.changeset = -1 /\ upArgs.skip = -1 =>
          /\ upPc # "panicked"
          /\ \A i \in 1..Len(upCreated) :
                /\ upCreated[i] = i
                /\ upRevlog[upCreated[i]] \subseteq
                      {upCreated[j] : j \in 1..(i - 1)}

\* The third changeset is parsed before its parent, the second, and waits.
C38_Witness ==
    /\ upArgs = [changeset |-> -1, skip |-> -1, commits_limit |-> -1]
    /\ Len(upRevlog) = 3
    /\ 2 \in upRevlog[3]
    /\ upStatus = <<"emitted", "running", "ok">>
    /\ upCreated = <<1>>

(***************************************************************************)
(* upload_bookmarks: one future per bookmark of the revlog through         *)
(* futures_unordered, filter_map, chunks(100), one transaction per chunk.  *)
(*                                                                         *)
(* Bookmark k is a number; its targets are "cur", the changeset the revlog *)
(* gives, and "stale", the one of stale_bookmarks.  The first bookmarks    *)
(* take every case; the others have a current target that exists and no   *)
(* stale one, and as they are alike they resolve in the order of their     *)
(* numbers.                                                                *)
(***************************************************************************)
MaxBookmarks == 102

chunk_capacity == 100

\* How many bookmarks take every case.
MaxVaried == 2

BookmarkCounts == {0, 1, 2, MaxBookmarks}

Varied(nb) == 1..(IF nb < MaxVaried THEN nb ELSE MaxVaried)

\* repo.changeset_exists(&cs_id) of the current target of bookmark k
CurExists(k) == IF k \in DOMAIN bkArgs.cur THEN bkArgs.cur[k] ELSE TRUE

\* stale_bookmarks.get(&key): "none", or whether its changeset exists
Stale(k) == IF k \in DOMAIN bkArgs.stale THEN bkArgs.stale[k] ELSE "none"

\* A future that takes the stale target without asking whether it exists.
resolved_stale_unchecked(k) ==
    IF CurExists(k) THEN <<"cur">>
    ELSE IF Stale(k) # "none" THEN <<"stale">>
    ELSE <<>>

\* What the future of bookmark k resolves to when no read fails: Some of the
\* target to set, or None.
resolved(k) ==
    LET checked == IF ~CurExists(k) /\ Stale(k) # "none"
                   THEN [cs_id |-> "stale", exists |-> Stale(k) = "exists"]
                   ELSE [cs_id |-> "cur", exists |-> CurExists(k)]
    IN  IF checked.exists THEN <<checked.cs_id>> ELSE <<>>

InitBookmarks ==
    /\ EarlyIdle
    /\ StreamOutIdle
    /\ FilenodesIdle
    /\ UploadIdle
    /\ HookIdle
    /\ \E nb \in BookmarkCounts :
          bkArgs \in [nb : {nb}, cur : [Varied(nb) -> BOOLEAN],
                      stale : [Varied(nb) -> {"none", "missing", "exists"}]]
    /\ bkPending = {}
    /\ bkChunk = {}
    /\ bkReady = FALSE
    /\ bkErr = FALSE
    /\ bkSet = {}
    /\ bkTx = {}
    /\ bkPc = "read"

\* read_bookmarks resolves.
BkRead(ok) ==
    /\ bkPc = "read"
    /\ IF ok
       THEN /\ bkPc' = "running"
            /\ bkPending' = 1..bkArgs.nb
       ELSE /\ bkPc' = "failed"
            /\ UNCHANGED bkPending
    /\ UNCHANGED <<bkArgs, bkChunk, bkReady, bkErr, bkSet, bkTx>>

\* The futures that may resolve next.
MayResolve(k) ==
    /\ k \in bkPending
    /\ k \in Varied(bkArgs.nb) \/ \A j \in bkPending \ Varied(bkArgs.nb) : k <= j

\* Chunks::poll takes the item of a resolved future: filter_map drops None,
\* and a chunk that has reached its capacity is yielded.
BkResolve(k) ==
    /\ bkPc = "running"
    /\ ~bkReady
    /\ MayResolve(k)
    /\ bkPending' = bkPending \ {k}
    /\ bkChunk' = IF resolved(k) = <<>> THEN bkChunk
                  ELSE bkChunk \cup {<<k, resolved(k)[1]>>}
    /\ bkReady' = (Cardinality(bkChunk') >= chunk_capacity)
    /\ UNCHANGED <<bkArgs, bkErr, bkSet, bkTx, bkPc>>

\* A read of the future of bookmark k fails: Chunks returns the error when
\* it holds no item, and yields what it holds and keeps the error otherwise.
\* The reads that fail are those of the first bookmarks.
BkResolveErr(k) ==
    /\ bkPc = "running"
    /\ ~bkReady
    /\ MayResolve(k)
    /\ k \in Varied(bkArgs.nb)
    /\ bkPending' = bkPending \ {k}
    /\ IF bkChunk = {}
       THEN /\ bkPc' = "failed"
            /\ UNCHANGED <<bkReady, bkErr>>
       ELSE /\ bkReady' = TRUE
            /\ bkErr' = TRUE
            /\ UNCHANGED bkPc
    /\ UNCHANGED <<bkArgs, bkChunk, bkSet, bkTx>>

\* The stream of futures is done: Chunks yields what it holds, if anything.
BkStreamEnd ==
    /\ bkPc = "running"
    /\ ~bkReady
    /\ bkPending = {}
    /\ IF bkChunk = {}
       THEN /\ bkPc' = "done"
            /\ UNCHANGED bkReady
       ELSE /\ bkReady' = TRUE
            /\ UNCHANGED bkPc
    /\ UNCHANGED <<bkArgs, bkPending, bkChunk, bkErr, bkSet, bkTx>>

\* transaction.force_set of every item of the chunk
force_set(set, chunk) ==
    {b \in set : ~\E c \in chunk : c[1] = b[1]} \cup chunk

\* The transaction of the chunk yielded: it commits, or the upload fails.
\* After a commit Chunks is polled again and returns the error it kept.
BkCommit(ok) ==
    /\ bkPc = "running"
    /\ bkReady
    /\ IF ok
       THEN /\ bkSet' = force_set(bkSet, bkChunk)
            /\ bkTx' = bkTx \cup {Cardinality(bkChunk)}
            /\ bkChunk' = {}
            /\ bkReady' = FALSE
            /\ bkErr' = FALSE
            /\ bkPc' = IF bkErr THEN "failed" ELSE "running"
       ELSE /\ bkPc' = "failed"
            /\ UNCHANGED <<bkSet, bkTx, bkChunk, bkReady, bkErr>>
    /\ UNCHANGED <<bkArgs, bkPending>>

NextBookmarks ==
    \/ \E ok \in BOOLEAN : BkRead(ok) /\ UNCHANGED exceptBookmarks
    \/ \E k \in 1..MaxBookmarks : BkResolve(k) /\ UNCHANGED exceptBookmarks
    \/ \E k \in 1..MaxVaried : BkResolveErr(k) /\ UNCHANGED exceptBookmarks
    \/ BkStreamEnd /\ UNCHANGED exceptBookmarks
    \/ \E ok \in BOOLEAN : BkCommit(ok) /\ UNCHANGED exceptBookmarks

SpecBookmarks == InitBookmarks /\ [][NextBookmarks]_vars

\* C39: a bookmark is only ever set, or put in a transaction, to its
\* current target when that changeset exists, or to its stale target when
\* the current one does not exist and the stale one is given and exists;
\* every transaction holds between 1 and 100 bookmarks; and an upload that
\* is done has committed every chunk: every bookmark with such a target is
\* set to it and no other bookmark is set.
C39_BookmarksToExistingOnly ==
    LET current(k) == IF k \in DOMAIN bkArgs.cur THEN bkArgs.cur[k] ELSE TRUE
        old(k) == IF k \in DOMAIN bkArgs.stale THEN bkArgs.stale[k]
                    ELSE "none"
        target(k) == IF current(k) THEN "cur"
                     ELSE IF old(k) = "exists" THEN "stale" ELSE "untouched"
    IN  /\ \A b \in bkSet \cup bkChunk : b[2] = target(b[1])
        /\ \A size \in bkTx : 1 <= size /\ size <= 100
        /\ bkPc = "done" =>
              /\ bkChunk = {}
              /\ bkSet = {<<k, target(k)>> :
                            k \in {j \in 1..bkArgs.nb : target(j) # "untouched"}}
        /\ bkPc = "running" /\ bkReady => bkChunk # {}

C39_Witness ==
    /\ bkPc = "done"
    /\ bkArgs.nb = MaxBookmarks
    /\ bkArgs.cur[1] = FALSE
    /\ bkArgs.stale[1] = "exists"
    /\ bkArgs.cur[2] = FALSE
    /\ bkArgs.stale[2] = "missing"
    /\ <<1, "stale">> \in bkSet
    /\ bkTx = {100, MaxBookmarks - 101}

(***************************************************************************)
(* LuaHook::run: the code is loaded, __hook_start runs the hook function   *)
(* in a coroutine, convert_coroutine_res turns what the coroutine resolves *)
(* to into a HookExecution.                                                *)
(*                                                                         *)
(* A Lua value is a record of its type and its value as a boolean, a       *)
(* string or a number.                                                     *)
(***************************************************************************)
LuaNil == [ty |-> "nil", b |-> FALSE, s |-> "", n |-> 0]

LuaBoolean(b) == [ty |-> "boolean", b |-> b, s |-> "", n |-> 0]

LuaString(s) == [ty |-> "string", b |-> FALSE, s |-> s, n |-> 0]

LuaNumber(num) == [ty |-> "number", b |-> FALSE, s |-> "", n |-> num]

\* What the hook function returns: up to three values, nil when absent.
HookReturns ==
    {<<r1, r2, r3>> :
        r1 \in {LuaNil, LuaBoolean(TRUE), LuaBoolean(FALSE),
                LuaString("aardvarks"), LuaNumber(23)},
        r2 \in {LuaNil, LuaString("emus"), LuaNumber(23)},
        r3 \in {LuaNil, LuaString("ostriches"), LuaNumber(23)}}

Hooks ==
    [kind : {"changeset", "file"}, loads : BOOLEAN, has_hook : BOOLEAN,
     raises : BOOLEAN, returns : HookReturns]

HookExecution(kind, desc, long_desc) ==
    [kind |-> kind, desc |-> desc, long_desc |-> long_desc]

Accepted == HookExecution("Accepted", "", "")

Rejected(desc, long_desc) == HookExecution("Rejected", desc, long_desc)

HookRuntimeError(msg) == HookExecution("HookRuntimeError", msg, "")

HookParseError == HookExecution("HookParseError", "", "")

LuaErr(msg) == [ok |-> FALSE, t |-> <<>>, err |-> msg]

\* __hook_start_base: what the coroutine resolves to, the table of the
\* values the hook function returned or an error.
hook_start_base(h) ==
    LET r == h.returns
    IN  IF ~h.has_hook THEN LuaErr("no hook function")
        ELSE IF h.raises THEN LuaErr("exception")
        ELSE IF r[1].ty # "boolean" THEN LuaErr("invalid hook return type")
        ELSE IF r[1].b /\ r[2].ty # "nil"
        THEN LuaErr("failure description must only be set if hook fails")
        ELSE IF r[1].b /\ r[3].ty # "nil"
        THEN LuaErr("failure long description must only be set if hook fails")
        ELSE IF r[2].ty \notin {"nil", "string"}
        THEN LuaErr("invalid hook failure short description type")
        ELSE IF r[3].ty \notin {"nil", "string"}
        THEN LuaErr("invalid hook failure long description type")
        ELSE [ok |-> TRUE, t |-> r, err |-> ""]

\* t.get::<bool, _, _>(i)
get_bool(v) == IF v.ty = "boolean" THEN <<v.b>> ELSE <<>>

\* t.get::<String, _, _>(i): lua_tolstring also converts a number
get_String(v) ==
    IF v.ty = "string" THEN <<v.s>>
    ELSE IF v.ty = "number" THEN <<ToString(v.n)>>
    ELSE <<>>

\* A conversion that takes the descriptions in the other order.
convert_coroutine_res_swapped(res) ==
    IF ~res.ok THEN HookRuntimeError(res.err)
    ELSE IF get_bool(res.t[1]) = <<>> THEN HookRuntimeError("No hook return")
    ELSE IF get_bool(res.t[1])[1] THEN Accepted
    ELSE Rejected(IF get_String(res.t[3]) = <<>> THEN ""
                  ELSE get_String(res.t[3])[1],
                  IF get_String(res.t[2]) = <<>> THEN ""
                  ELSE get_String(res.t[2])[1])

convert_coroutine_res(res) ==
    IF ~res.ok THEN HookRuntimeError(res.err)
    ELSE IF get_bool(res.t[1]) = <<>> THEN HookRuntimeError("No hook return")
    ELSE IF get_bool(res.t[1])[1] THEN Accepted
    ELSE Rejected(IF get_String(res.t[2]) = <<>> THEN ""
                  ELSE get_String(res.t[2])[1],
                  IF get_String(res.t[3]) = <<>> THEN ""
                  ELSE get_String(res.t[3])[1])

NoExecution == HookExecution("none", "", "")

InitHook ==
    /\ EarlyIdle
    /\ StreamOutIdle
    /\ FilenodesIdle
    /\ UploadIdle
    /\ BookmarksIdle
    /\ hkIn \in Hooks
    /\ hkPc = "new"
    /\ hkRan = FALSE
    /\ hkRes = NoExecution

\* lua.execute::<()>(&code), of either run
HkExecute ==
    /\ hkPc = "new"
    /\ IF hkIn.loads
       THEN /\ hkPc' = "loaded"
            /\ UNCHANGED hkRes
       ELSE /\ hkPc' = "done"
            /\ hkRes' = HookParseError
    /\ UNCHANGED <<hkIn, hkRan>>

\* builder.create(..): the coroutine runs __hook_start, which calls the hook
\* function when there is one.
HkCoroutine ==
    /\ hkPc = "loaded"
    /\ hkPc' = "started"
    /\ hkRan' = hkIn.has_hook
    /\ UNCHANGED <<hkIn, hkRes>>

\* The coroutine resolves and the future of run with it.
HkConvert ==
    /\ hkPc = "started"
    /\ hkPc' = "done"
    /\ hkRes' = convert_coroutine_res(hook_start_base(hkIn))
    /\ UNCHANGED <<hkIn, hkRan>>

NextHook ==
    \/ HkExecute /\ UNCHANGED exceptHook
    \/ HkCoroutine /\ UNCHANGED exceptHook
    \/ HkConvert /\ UNCHANGED exceptHook

SpecHook == InitHook /\ [][NextHook]_vars

\* The hook function has run to its return and run has resolved.
HookReturned ==
    hkPc = "done" /\ hkIn.loads /\ hkIn.has_hook /\ ~hkIn.raises

\* C40 as claimed: a first return value true gives Accepted, a first return
\* value false gives Rejected with the second and third return values as
\* descriptions, the empty string for an absent one; a first value that is
\* no boolean gives a HookRuntimeError; code that does not load gives a
\* HookParseError and the hook function has not run.
C40_Claimed ==
    LET r == hkIn.returns
    IN  /\ HookReturned /\ r[1] = LuaBoolean(TRUE) => hkRes = Accepted
        /\ HookReturned /\ r[1] = LuaBoolean(FALSE) =>
              /\ hkRes.kind = "Rejected"
              /\ r[2].ty = "nil" => hkRes.desc = ""
              /\ r[3].ty = "nil" => hkRes.long_desc = ""
        /\ HookReturned /\ r[1].ty # "boolean" =>
              hkRes.kind = "HookRuntimeError"
        /\ hkPc = "done" /\ ~hkIn.loads =>
              hkRes.kind = "HookParseError" /\ ~hkRan

\* C40: for changeset hooks and file hooks alike, true alone gives
\* Accepted; true with a second or third value gives a HookRuntimeError;
\* false gives Rejected with the second and third values as descriptions
\* when each is a string or absent, the empty string for an absent one;
\* false with a description that is no string gives a HookRuntimeError; a
\* first value that is no boolean gives a HookRuntimeError; only a first
\* value true gives Accepted; and code that does not load gives a
\* HookParseError and the hook function has not run.
C40_HookVerdict ==
    LET r == hkIn.returns
        text(v) == IF v.ty = "string" THEN v.s ELSE ""
    IN  /\ HookReturned /\ r[1] = LuaBoolean(TRUE) =>
              IF r[2].ty = "nil" /\ r[3].ty = "nil"
              THEN hkRes = [kind |-> "Accepted", desc |-> "", long_desc |-> ""]
              ELSE hkRes.kind = "HookRuntimeError"
        /\ HookReturned /\ r[1] = LuaBoolean(FALSE) =>
              IF r[2].ty \in {"nil", "string"} /\ r[3].ty \in {"nil", "string"}
              THEN hkRes = [kind |-> "Rejected", desc |-> text(r[2]),
                            long_desc |-> text(r[3])]
              ELSE hkRes.kind = "HookRuntimeError"
        /\ HookReturned /\ r[1].ty # "boolean" =>
              hkRes.kind = "HookRuntimeError"
        /\ hkRes.kind = "Accepted" => HookReturned /\ r[1] = LuaBoolean(TRUE)
        /\ hkPc = "done" /\ ~hkIn.loads =>
              hkRes.kind = "HookParseError" /\ ~hkRan
        /\ hkPc = "done" /\ hkIn.loads /\ (~hkIn.has_hook \/ hkIn.raises) =>
              hkRes.kind = "HookRuntimeError"

C40_Witness ==
    /\ hkPc = "done"
    /\ hkIn.kind = "file"
    /\ hkIn.returns = <<LuaBoolean(FALSE), LuaString("emus"), LuaNil>>
    /\ hkRan
    /\ hkRes = [kind |-> "Rejected", desc |-> "emus", long_desc |-> ""]

====
